---- MODULE Spec2Model ----
(***************************************************************************)
(* A model of the zcash-block codec: Block.decode / decodeHeaderOnly /     *)
(* encode / toPorcelain / fromPorcelain / calculateMerkleRoot and the      *)
(* transaction record they drive.                                          *)
(*                                                                         *)
(* Representation.  A byte string (Buffer) is a sequence of 0..255.  A     *)
(* 32-bit number (version, time, bits, locktime, ...) is kept as its four  *)
(* little-endian bytes and a 64-bit amount as its eight little-endian      *)
(* bytes, because the values (0x892F2085, 2^53 + 1) lie outside the        *)
(* integer range of the model checker.  A hex string is a sequence of      *)
(* hex digits 0..15.  An optional value is <<>> (undefined / null) or      *)
(* <<v>>.                                                                  *)
(***************************************************************************)
EXTENDS Integers, Sequences, FiniteSets, Bags, TLC

VARIABLES buf, strict, blk, porcelain, blk2, res, txp, tx2, edit

vars == <<buf, strict, blk, porcelain, blk2, res, txp, tx2, edit>>

---------------------------------------------------------------------------
(* Bounds of the input space *)

\* the largest number of transactions in an input block
MaxTx == 3
\* the largest number of bytes that follow the record in an input
MaxTrail == 1

---------------------------------------------------------------------------
(* Byte-string helpers *)

None == <<>>
Some(v) == <<v>>
IsSome(o) == Len(o) = 1
Get(o) == o[1]

Fill(n, b) == [i \in 1..n |-> b]
Zeros(n) == Fill(n, 0)
Reverse(s) == [i \in 1..Len(s) |-> s[Len(s) + 1 - i]]

\* decoder.absoluteSlice(start, length): a view of the input, 0-based start
absoluteSlice(b, start, length) == SubSeq(b, start + 1, start + length)

RECURSIVE Concat(_)
Concat(parts) ==
    IF Len(parts) = 0 THEN <<>>
    ELSE IF Len(parts) = 1 THEN parts[1]
    ELSE LET h == Len(parts) \div 2
         IN Concat(SubSeq(parts, 1, h)) \o Concat(SubSeq(parts, h + 1, Len(parts)))

\* Buffer.toString('hex'): two hex digits per byte, high digit first
ToHex(b) == [i \in 1..(2 * Len(b)) |->
               IF i % 2 = 1 THEN b[(i + 1) \div 2] \div 16 ELSE b[i \div 2] % 16]

\* Buffer.from(s, 'hex')
FromHex(s) == [i \in 1..(Len(s) \div 2) |-> 16 * s[2 * i - 1] + s[2 * i]]

\* toHashHex: the hex of the byte-reversed hash
toHashHex(h) == ToHex(Reverse(h))

\* fromHashHex: the byte-reversed bytes of the hex
fromHashHex(s) == Reverse(FromHex(s))

\* isHexString(s, len): a string of hex digits, of length len when len is given
isHexString(s, len) ==
    /\ \A i \in 1..Len(s) : s[i] \in 0..15
    /\ (IsSome(len) => Len(s) = Get(len))

\* the hex digits a string starts with: parseInt stops at the first character
\* that is not one
HexPrefix(s) ==
    LET bad == {i \in 1..Len(s) : s[i] \notin 0..15}
    IN IF bad = {} THEN s
       ELSE SubSeq(s, 1, (CHOOSE i \in bad : \A j \in bad : i <= j) - 1)

\* parseInt(s, 16): the number of the leading hex digits when it fits 32 bits,
\* None (NaN or beyond uint32) otherwise
ParseInt16(s) ==
    LET d == HexPrefix(s)
        nz == {i \in 1..Len(d) : d[i] # 0}
        first == IF nz = {} THEN Len(d) ELSE CHOOSE i \in nz : \A j \in nz : i <= j
        sig == SubSeq(d, first, Len(d))
    IN IF Len(d) = 0 \/ Len(sig) > 8 THEN None
       ELSE Some(Reverse(FromHex([i \in 1..(8 - Len(sig)) |-> 0] \o sig)))

---------------------------------------------------------------------------
(* Program constants *)

HEADER_BYTES == 1487
SOLUTION_BYTES == 1344
UINT256_BYTES == 32

---------------------------------------------------------------------------
(* Hashing and the Merkle tree (primitives of the sibling library) *)

\* The sum over the input of a position-weighted image of each byte: the
\* images are positive, so the sequence of images is a bag and its cardinality
\* is their sum
WeightedSum(b) ==
    BagCardinality([i \in 1..Len(b) |-> ((i % 251) + 1) * (b[i] + 1)])

\* dblSha2256: a 32-byte digest that depends on every byte, its position and
\* the length of the input (a stand-in for sha256(sha256(x)))
dblSha2256(b) ==
    LET s == WeightedSum(b)
        n == Len(b) % 1000
    IN [i \in 1..32 |-> ((s \div i) + 31 * n + 17 * i + 1) % 256]

\* one layer of the tree: adjacent pairs, the last node doubled when alone
MerkleLayer(nodes) ==
    [i \in 1..((Len(nodes) + 1) \div 2) |->
        dblSha2256(nodes[2 * i - 1] \o
                   (IF 2 * i <= Len(nodes) THEN nodes[2 * i] ELSE nodes[2 * i - 1]))]

\* merkleRoot(hashes): fold the layers until one node remains
RECURSIVE merkleRoot(_)
merkleRoot(hashes) ==
    IF Len(hashes) = 1 THEN hashes[1] ELSE merkleRoot(MerkleLayer(hashes))

---------------------------------------------------------------------------
(* JavaScript numbers *)

\* the 64 bits of eight little-endian bytes, most significant first
ToBits(v) == [i \in 1..64 |-> (v[8 - ((i - 1) \div 8)] \div (2 ^ (7 - ((i - 1) % 8)))) % 2]

\* eight little-endian bytes from 64 bits, most significant first
FromBits(bits) ==
    [k \in 1..8 |->
        LET base == 8 * (8 - k)
        IN 128 * bits[base + 1] + 64 * bits[base + 2] + 32 * bits[base + 3]
           + 16 * bits[base + 4] + 8 * bits[base + 5] + 4 * bits[base + 6]
           + 2 * bits[base + 7] + bits[base + 8]]

\* bits + 2^(64 - at) with the carry propagated towards the top
AddBitAt(bits, at) ==
    [i \in 1..64 |->
        IF i > at THEN bits[i]
        ELSE IF \A j \in (i + 1)..at : bits[j] = 1 THEN 1 - bits[i]
        ELSE bits[i]]

\* two's complement negation of 64 bits
NegateBits(bits) == AddBitAt([i \in 1..64 |-> 1 - bits[i]], 64)

\* the magnitude rounded to 53 significant bits, ties to even: what a double holds
RoundToDouble(mag) ==
    LET ones == {i \in 1..64 : mag[i] = 1}
        p == IF ones = {} THEN 64 ELSE CHOOSE i \in ones : \A j \in ones : i <= j
        lsb == p + 52
    IN IF lsb >= 64 THEN mag
       ELSE LET guard == mag[lsb + 1]
                sticky == \E j \in (lsb + 2)..64 : mag[j] = 1
                up == guard = 1 /\ (sticky \/ mag[lsb] = 1)
                cut == [i \in 1..64 |-> IF i <= lsb THEN mag[i] ELSE 0]
            IN IF up THEN AddBitAt(cut, lsb) ELSE cut

\* Number(v) of a signed 64-bit BigInt v: sign and magnitude of the nearest
\* double (the magnitude is at most 2^63, so rounding never leaves 64 bits)
Number(v) ==
    LET bits == ToBits(v)
        neg == bits[1] = 1
        mag == IF neg THEN NegateBits(bits) ELSE bits
    IN [neg |-> neg, mag |-> FromBits(RoundToDouble(mag))]

\* does the number fit a signed 64-bit integer again (writeBigInt64LE accepts it)
FitsInt64(n) ==
    \/ n.mag[8] < 128
    \/ n.neg /\ n.mag = <<0, 0, 0, 0, 0, 0, 0, 128>>

\* the eight little-endian bytes of BigInt(n), two's complement
NumberToInt64(n) ==
    IF n.neg THEN FromBits(NegateBits(ToBits(n.mag))) ELSE n.mag

\* version >= 2 on a 31-bit version held as four little-endian bytes
AtLeast2(v) == v[1] >= 2 \/ v[2] > 0 \/ v[3] > 0 \/ v[4] > 0

\* version >= SAPLING_TX_VERSION
AtLeast4(v) == v[1] >= 4 \/ v[2] > 0 \/ v[3] > 0 \/ v[4] > 0

---------------------------------------------------------------------------
(* The cursor: every reader returns [ok, val, pos]; pos counts consumed bytes *)

Fail(pos) == [ok |-> FALSE, val |-> <<>>, pos |-> pos]
Ok(v, pos) == [ok |-> TRUE, val |-> v, pos |-> pos]

\* a fixed-width slice (uint256, uint32_t, int32_t, CAmount, signatures, proofs)
ReadBytes(b, pos, n) ==
    IF pos + n <= Len(b) THEN Ok(absoluteSlice(b, pos, n), pos + n) ELSE Fail(pos)

\* the compact-size prefix: < 0xFD one byte, 0xFD 2 bytes, 0xFE 4 bytes, 0xFF 8
\* bytes, little-endian; a value of 2^24 or more exceeds every input and is
\* reported as a failed read
ReadCompactSize(b, pos) ==
    IF pos + 1 > Len(b) THEN Fail(pos)
    ELSE LET first == b[pos + 1]
             width == IF first < 253 THEN 0
                      ELSE IF first = 253 THEN 2
                      ELSE IF first = 254 THEN 4 ELSE 8
         IN IF first < 253 THEN Ok(first, pos + 1)
            ELSE IF pos + 1 + width > Len(b) THEN Fail(pos)
            ELSE IF \E k \in 4..width : b[pos + 1 + k] # 0 THEN Fail(pos)
            ELSE Ok(b[pos + 2] + 256 * b[pos + 3]
                      + (IF width > 2 THEN 65536 * b[pos + 4] ELSE 0),
                    pos + 1 + width)

\* std::vector<unsigned char> and CScript: a compact-size length, then bytes
ReadVarBytes(b, pos) ==
    LET n == ReadCompactSize(b, pos)
    IN IF ~n.ok THEN Fail(pos) ELSE ReadBytes(b, n.pos, n.val)

\* count items read one after the other by the reader R
RECURSIVE ReadItems(_, _, _, _, _)
ReadItems(R(_, _), b, pos, count, acc) ==
    IF count = 0 THEN Ok(acc, pos)
    ELSE LET r == R(b, pos)
         IN IF ~r.ok THEN Fail(pos)
            ELSE ReadItems(R, b, r.pos, count - 1, Append(acc, r.val))

\* std::vector<T>: a compact-size count, then the items
ReadVector(R(_, _), b, pos) ==
    LET n == ReadCompactSize(b, pos)
    IN IF ~n.ok THEN Fail(pos) ELSE ReadItems(R, b, n.pos, n.val, <<>>)

\* std::array<T, N>: N items, no prefix
ReadArray(R(_, _), b, pos, n) == ReadItems(R, b, pos, n, <<>>)

\* widths in order, each a fixed-width field: the values in order
RECURSIVE ReadFields(_, _, _, _)
ReadFields(b, pos, widths, acc) ==
    IF Len(widths) = 0 THEN Ok(acc, pos)
    ELSE LET r == ReadBytes(b, pos, widths[1])
         IN IF ~r.ok THEN Fail(pos)
            ELSE ReadFields(b, r.pos, Tail(widths), Append(acc, r.val))

\* The decoder's walk through a properties descriptor: the cursor, the
\* properties pushed so far and the scratchpad `state` the custom hooks share
Begin(pos, state) == [ok |-> TRUE, pos |-> pos, properties |-> <<>>, state |-> state]
Abort(d) == [d EXCEPT !.ok = FALSE]
\* properties.push(v)
Push(d, v) == [d EXCEPT !.properties = Append(@, v)]
\* properties.push(<the value the read r produced>), the cursor after it
Take(d, r) ==
    IF r.ok THEN [d EXCEPT !.pos = r.pos, !.properties = Append(@, r.val)] ELSE Abort(d)
\* a typed line of the descriptor, read by R at the cursor
Then(R(_, _), b, d) == IF d.ok THEN Take(d, R(b, d.pos)) ELSE d
\* a _custom line of the descriptor, run by the hook H
Hook(H(_, _), b, d) == IF d.ok THEN H(b, d) ELSE d
\* the class constructor C applied to the finished walk
Finish(C(_), d, pos) == IF d.ok THEN Ok(C(d), d.pos) ELSE Fail(pos)

---------------------------------------------------------------------------
(* The encoders of the primitives *)

\* the compact-size prefix of a length below 2^16
WriteCompactSize(n) ==
    IF n < 253 THEN <<n>> ELSE <<253, n % 256, n \div 256>>

WriteVarBytes(v) == WriteCompactSize(Len(v)) \o v

\* std::vector<T>: the count, then each item through the encoder E
WriteVector(E(_), items) ==
    WriteCompactSize(Len(items)) \o Concat([i \in 1..Len(items) |-> E(items[i])])

WriteArray(E(_), items) == Concat([i \in 1..Len(items) |-> E(items[i])])

---------------------------------------------------------------------------
(* Transaction constants *)

\* OVERWINTER_TX_VERSION = 3 and SAPLING_TX_VERSION = 4 as numbers
OVERWINTER_TX_VERSION == <<3, 0, 0, 0>>
SAPLING_TX_VERSION == <<4, 0, 0, 0>>
\* 0x03C48270 and 0x892F2085, little-endian
OVERWINTER_VERSION_GROUP_ID == <<112, 130, 196, 3>>
SAPLING_VERSION_GROUP_ID == <<133, 32, 47, 137>>
NULL_HASH == Zeros(32)

GROTH_PROOF_BYTES == 192
PHGR_PROOF_BYTES == 296
SIG_BYTES == 64
ENC_CIPHERTEXT_BYTES == 580
OUT_CIPHERTEXT_BYTES == 80
JS_CIPHERTEXT_BYTES == 601

---------------------------------------------------------------------------
(* Shielded and JoinSplit sub-records *)

\* SpendDescription: cv, anchor, nullifier, rk, GrothProof, spend_auth_sig_t
DecodeSpendDescription(b, pos) ==
    LET r == ReadFields(b, pos, <<32, 32, 32, 32, GROTH_PROOF_BYTES, SIG_BYTES>>, <<>>)
    IN IF ~r.ok THEN Fail(pos)
       ELSE Ok([cv |-> r.val[1], anchor |-> r.val[2], nullifier |-> r.val[3],
                rk |-> r.val[4], proof |-> r.val[5], spendAuthSig |-> r.val[6]], r.pos)

EncodeSpendDescription(sd) ==
    sd.cv \o sd.anchor \o sd.nullifier \o sd.rk \o sd.proof \o sd.spendAuthSig

\* OutputDescription: cv, cm, ephemeralKey, encCiphertext, outCiphertext, GrothProof
DecodeOutputDescription(b, pos) ==
    LET r == ReadFields(b, pos, <<32, 32, 32, ENC_CIPHERTEXT_BYTES, OUT_CIPHERTEXT_BYTES,
                                  GROTH_PROOF_BYTES>>, <<>>)
    IN IF ~r.ok THEN Fail(pos)
       ELSE Ok([cv |-> r.val[1], cmu |-> r.val[2], ephemeralKey |-> r.val[3],
                encCiphertext |-> r.val[4], outCiphertext |-> r.val[5],
                proof |-> r.val[6]], r.pos)

EncodeOutputDescription(od) ==
    od.cv \o od.cmu \o od.ephemeralKey \o od.encCiphertext \o od.outCiphertext \o od.proof

\* PHGRProof: g_A, g_A', g_B, g_B', g_C, g_C', g_K, g_H (seven compressed G1 of
\* 33 bytes, g_B a compressed G2 of 65), then the raw bytes between the mark
\* and the cursor; the proof object is not a Buffer
DecodePHGRProof(b, pos) ==
    LET proofStartPos == pos
        r == ReadFields(b, pos, <<33, 33, 65, 33, 33, 33, 33, 33>>, <<>>)
    IN IF ~r.ok THEN Fail(pos)
       ELSE Ok([isBuffer |-> FALSE,
                bytes |-> absoluteSlice(b, proofStartPos, r.pos - proofStartPos)], r.pos)

\* libzcash::GrothProof: GROTH_PROOF_BYTES raw bytes, a Buffer
ReadGrothProof(b, pos) ==
    LET r == ReadBytes(b, pos, GROTH_PROOF_BYTES)
    IN IF ~r.ok THEN Fail(pos) ELSE Ok([isBuffer |-> TRUE, bytes |-> r.val], r.pos)

\* a variant of _customDecodeSproutProof that looks at the overwintered flag only
CustomDecodeSproutProof_Overwintered(b, d) ==
    IF d.state.overwintered THEN Take(d, ReadGrothProof(b, d.pos))
    ELSE Take(d, DecodePHGRProof(b, d.pos))

\* _customDecodeSproutProof: GrothProof when the scratchpad says overwintered
\* and version >= SAPLING_TX_VERSION, PHGRProof otherwise
CustomDecodeSproutProof(b, d) ==
    LET useGroth == d.state.overwintered /\ AtLeast4(d.state.version)
    IN IF useGroth THEN Take(d, ReadGrothProof(b, d.pos))
       ELSE Take(d, DecodePHGRProof(b, d.pos))

ReadCAmount(b, pos) == ReadBytes(b, pos, 8)
ReadUint256(b, pos) == ReadBytes(b, pos, 32)
ReadUint256Pair(b, pos) == ReadArray(ReadUint256, b, pos, 2)
ReadCiphertext(b, pos) == ReadBytes(b, pos, JS_CIPHERTEXT_BYTES)
ReadCiphertextPair(b, pos) == ReadArray(ReadCiphertext, b, pos, 2)

\* new ZcashJoinSplitDescription(...properties)
JoinSplitDescription(d) ==
    [vpub_oldZat |-> d.properties[1], vpub_newZat |-> d.properties[2],
     anchor |-> d.properties[3], nullifiers |-> d.properties[4],
     commitments |-> d.properties[5], onetimePubKey |-> d.properties[6],
     randomSeed |-> d.properties[7], macs |-> d.properties[8],
     proof |-> d.properties[9], ciphertexts |-> d.properties[10]]

\* JSDescription, line by line of its decode descriptor
DecodeJSDescription(b, pos, state) ==
    Finish(JoinSplitDescription,
        Then(ReadCiphertextPair, b,
        Hook(CustomDecodeSproutProof, b,
        Then(ReadUint256Pair, b,
        Then(ReadUint256, b,
        Then(ReadUint256, b,
        Then(ReadUint256Pair, b,
        Then(ReadUint256Pair, b,
        Then(ReadUint256, b,
        Then(ReadCAmount, b,
        Then(ReadCAmount, b, Begin(pos, state))))))))))), pos)

\* the PHGRProof encoder: the captured raw bytes
EncodePHGRProof(proof) == proof.bytes

\* the GrothProof encoder: the buffer
EncodeGrothProof(proof) == proof.bytes

\* the encoder _customEncodeSproutProof hands the proof to: Buffer.isBuffer
\* decides, the length of the proof is not looked at
SproutProofBranch(js) == IF js.proof.isBuffer THEN "GrothProof" ELSE "PHGRProof"

\* _customEncodeSproutProof: a Buffer goes to the GrothProof encoder
CustomEncodeSproutProof(js) ==
    IF SproutProofBranch(js) = "GrothProof"
    THEN EncodeGrothProof(js.proof) ELSE EncodePHGRProof(js.proof)

Identity(x) == x

EncodeJSDescription(js) ==
    js.vpub_oldZat \o js.vpub_newZat \o js.anchor
    \o WriteArray(Identity, js.nullifiers) \o WriteArray(Identity, js.commitments)
    \o js.onetimePubKey \o js.randomSeed \o WriteArray(Identity, js.macs)
    \o CustomEncodeSproutProof(js) \o WriteArray(Identity, js.ciphertexts)

---------------------------------------------------------------------------
(* Transaction inputs and outputs *)

\* CTxIn: COutPoint prevout (hash, n), CScript scriptSig, uint32_t nSequence
DecodeTxIn(b, pos) ==
    LET prevout == ReadFields(b, pos, <<32, 4>>, <<>>)
        scriptSig == ReadVarBytes(b, prevout.pos)
        sequence == ReadBytes(b, scriptSig.pos, 4)
    IN IF ~prevout.ok THEN Fail(pos)
       ELSE IF ~scriptSig.ok THEN Fail(pos)
       ELSE IF ~sequence.ok THEN Fail(pos)
       ELSE Ok([prevout |-> [hash |-> prevout.val[1], n |-> prevout.val[2]],
                scriptSig |-> scriptSig.val, sequence |-> sequence.val], sequence.pos)

EncodeTxIn(in) ==
    in.prevout.hash \o in.prevout.n \o WriteVarBytes(in.scriptSig) \o in.sequence

\* new ZcashTransactionOut(value, scriptPubKey): value is kept as Number(value)
TransactionOut(value, scriptPubKey) ==
    [value |-> Number(value), scriptPubKey |-> scriptPubKey]

\* CTxOut: CAmount nValue, CScript scriptPubKey
DecodeTxOut(b, pos) ==
    LET value == ReadBytes(b, pos, 8)
        scriptPubKey == ReadVarBytes(b, value.pos)
    IN IF ~value.ok THEN Fail(pos)
       ELSE IF ~scriptPubKey.ok THEN Fail(pos)
       ELSE Ok(TransactionOut(value.val, scriptPubKey.val), scriptPubKey.pos)

EncodeTxOut(out) == NumberToInt64(out.value) \o WriteVarBytes(out.scriptPubKey)

\* std::vector<CTxIn> and std::vector<CTxOut>
ReadTxIns(b, pos) == ReadVector(DecodeTxIn, b, pos)
ReadTxOuts(b, pos) == ReadVector(DecodeTxOut, b, pos)

---------------------------------------------------------------------------
(* The transaction record *)

isOverwinterV3(state) ==
    /\ state.overwintered
    /\ state.versiongroupid = OVERWINTER_VERSION_GROUP_ID
    /\ state.version = OVERWINTER_TX_VERSION

isSaplingV4(state) ==
    /\ state.overwintered
    /\ state.versiongroupid = SAPLING_VERSION_GROUP_ID
    /\ state.version = SAPLING_TX_VERSION

\* the scratchpad _customDecodeVersionAndGroup writes: the start mark, the
\* overwintered bit (txheader >> 31), the 31-bit version and the group id
VersionAndGroupState(start, txheader, versiongroupid) ==
    [transactionStartPos |-> start,
     overwintered |-> txheader[4] >= 128,
     version |-> <<txheader[1], txheader[2], txheader[3], txheader[4] % 128>>,
     versiongroupid |-> versiongroupid]

\* a variant of the hook's end that accepts every overwintered shape
VersionAndGroupPushed_AnyShape(d, state, pos) ==
    [ok |-> TRUE, pos |-> pos,
     properties |-> d.properties
         \o <<state.overwintered, state.version, state.versiongroupid>>,
     state |-> state]

\* the three pushes, and the throw on an unknown overwintered shape
VersionAndGroupPushed(d, state, pos) ==
    IF state.overwintered /\ ~(isOverwinterV3(state) \/ isSaplingV4(state)) THEN Abort(d)
    ELSE [ok |-> TRUE, pos |-> pos,
          properties |-> d.properties
              \o <<state.overwintered, state.version, state.versiongroupid>>,
          state |-> state]

\* _customDecodeVersionAndGroup
CustomDecodeVersionAndGroup(b, d) ==
    LET txheader == ReadBytes(b, d.pos, 4)
        group == ReadBytes(b, d.pos + 4, 4)
    IN IF ~txheader.ok THEN Abort(d)
       ELSE IF txheader.val[4] < 128
       THEN VersionAndGroupPushed(d, VersionAndGroupState(d.pos, txheader.val, Zeros(4)),
                                  txheader.pos)
       ELSE IF ~group.ok THEN Abort(d)
       ELSE VersionAndGroupPushed(d, VersionAndGroupState(d.pos, txheader.val, group.val),
                                  group.pos)

ReadUint32(b, pos) == ReadBytes(b, pos, 4)

\* a read whose value is held as a present (non-null) property
SomeOf(r) == IF r.ok THEN Ok(Some(r.val), r.pos) ELSE r
ReadSomeCAmount(b, pos) == SomeOf(ReadCAmount(b, pos))
ReadSomeSpends(b, pos) == SomeOf(ReadVector(DecodeSpendDescription, b, pos))
ReadSomeOutputs(b, pos) == SomeOf(ReadVector(DecodeOutputDescription, b, pos))
ReadSomeUint256(b, pos) == SomeOf(ReadUint256(b, pos))
ReadSomeSig(b, pos) == SomeOf(ReadBytes(b, pos, SIG_BYTES))

\* _customDecodeExpiryHeight
CustomDecodeExpiryHeight(b, d) ==
    IF isOverwinterV3(d.state) \/ isSaplingV4(d.state)
    THEN Take(d, ReadUint32(b, d.pos))
    ELSE Push(d, Zeros(4))

\* _customDecodeBalanceAndShielded: the three values are null unless Sapling v4
CustomDecodeBalanceAndShielded(b, d) ==
    IF isSaplingV4(d.state)
    THEN Then(ReadSomeOutputs, b, Then(ReadSomeSpends, b, Then(ReadSomeCAmount, b, d)))
    ELSE Push(Push(Push(d, None), None), None)

\* the key and the signature that follow a non-empty vjoinsplit, the last
\* property pushed
JoinSplitKeys(b, d) ==
    IF ~d.ok THEN d
    ELSE IF Len(d.properties[Len(d.properties)]) > 0
    THEN Then(ReadSomeSig, b, Then(ReadSomeUint256, b, d))
    ELSE Push(Push(d, None), None)

\* _customDecodeJoinSplit
CustomDecodeJoinSplit(b, d) ==
    IF AtLeast2(d.state.version)
    THEN JoinSplitKeys(b,
             Take(d, ReadVector(LAMBDA bb, pp : DecodeJSDescription(bb, pp, d.state),
                                b, d.pos)))
    ELSE Push(Push(Push(d, <<>>), None), None)

\* a variant of _customDecodeBindingSig that wants both vectors non-empty
CustomDecodeBindingSig_BothNonEmpty(b, d) ==
    IF isSaplingV4(d.state)
       /\ Len(Get(d.properties[9])) > 0 /\ Len(Get(d.properties[10])) > 0
    THEN Take(d, ReadSomeSig(b, d.pos))
    ELSE Push(d, None)

\* _customDecodeBindingSig: properties[8] and properties[9] are the shielded vectors
CustomDecodeBindingSig(b, d) ==
    IF isSaplingV4(d.state)
       /\ ~(Len(Get(d.properties[9])) = 0 /\ Len(Get(d.properties[10])) = 0)
    THEN Take(d, ReadSomeSig(b, d.pos))
    ELSE Push(d, None)

\* a variant of _customDecodeBytes that slices from the start of the input
CustomDecodeBytes_FromInputStart(b, d) == Push(d, absoluteSlice(b, 0, d.pos))

\* _customDecodeBytes: the slice from the marked start to the cursor
CustomDecodeBytes(b, d) ==
    Push(d, absoluteSlice(b, d.state.transactionStartPos,
                          d.pos - d.state.transactionStartPos))

\* _customDecodeHash: the double hash of the last property, rawBytes
CustomDecodeHash(b, d) == Push(d, dblSha2256(d.properties[Len(d.properties)]))

\* new ZcashTransaction(...properties)
Transaction(p) ==
    [overwintered |-> p[1], version |-> p[2], versiongroupid |-> p[3],
     vin |-> p[4], vout |-> p[5], locktime |-> p[6], expiryheight |-> p[7],
     valueBalanceZat |-> p[8], vShieldedSpend |-> p[9], vShieldedOutput |-> p[10],
     vjoinsplit |-> p[11], joinSplitPubKey |-> p[12], joinSplitSig |-> p[13],
     bindingSig |-> p[14], rawBytes |-> p[15], txid |-> p[16]]

\* the decoded transaction with the scratchpad its hooks wrote and the cursor
\* after its last hook
DecodedTransaction(d) ==
    [tx |-> Transaction(d.properties), state |-> d.state, endPos |-> d.pos]

\* CTransaction, line by line of its decode descriptor
DecodeTransaction(b, pos) ==
    Finish(DecodedTransaction,
        Hook(CustomDecodeHash, b,
        Hook(CustomDecodeBytes, b,
        Hook(CustomDecodeBindingSig, b,
        Hook(CustomDecodeJoinSplit, b,
        Hook(CustomDecodeBalanceAndShielded, b,
        Hook(CustomDecodeExpiryHeight, b,
        Then(ReadUint32, b,
        Then(ReadTxOuts, b,
        Then(ReadTxIns, b,
        Hook(CustomDecodeVersionAndGroup, b, Begin(pos, <<>>))))))))))), pos)

\* _customEncodeVersionAndGroup: header = version | (1 << 31) and the group id
\* when overwintered, the version alone otherwise
CustomEncodeVersionAndGroup(tx) ==
    IF tx.overwintered
    THEN <<tx.version[1], tx.version[2], tx.version[3], 128 + (tx.version[4] % 128)>>
         \o tx.versiongroupid
    ELSE tx.version

\* _customEncodeExpiryHeight
CustomEncodeExpiryHeight(tx) ==
    IF isOverwinterV3(tx) \/ isSaplingV4(tx) THEN tx.expiryheight ELSE <<>>

\* _customEncodeBalanceAndShielded
CustomEncodeBalanceAndShielded(tx) ==
    IF isSaplingV4(tx)
    THEN Get(tx.valueBalanceZat)
         \o WriteVector(EncodeSpendDescription, Get(tx.vShieldedSpend))
         \o WriteVector(EncodeOutputDescription, Get(tx.vShieldedOutput))
    ELSE <<>>

\* a variant of _customEncodeJoinSplit that writes the vector for every version
CustomEncodeJoinSplit_AnyVersion(tx) ==
    WriteVector(EncodeJSDescription, tx.vjoinsplit)
    \o (IF Len(tx.vjoinsplit) > 0
        THEN Get(tx.joinSplitPubKey) \o Get(tx.joinSplitSig)
        ELSE <<>>)

\* _customEncodeJoinSplit
CustomEncodeJoinSplit(tx) ==
    IF AtLeast2(tx.version)
    THEN WriteVector(EncodeJSDescription, tx.vjoinsplit)
         \o (IF Len(tx.vjoinsplit) > 0
             THEN Get(tx.joinSplitPubKey) \o Get(tx.joinSplitSig)
             ELSE <<>>)
    ELSE <<>>

\* _customEncodeBindingSig: emitted when bindingSig is a Buffer
CustomEncodeBindingSig(tx) ==
    IF IsSome(tx.bindingSig) THEN Get(tx.bindingSig) ELSE <<>>

\* the CAmount encoder rejects a value outside the signed 64-bit range, and the
\* encoders of the shielded values and of the JoinSplit keys reject null
TransactionEncodes(tx) ==
    /\ \A i \in 1..Len(tx.vout) : FitsInt64(tx.vout[i].value)
    /\ isSaplingV4(tx) =>
          /\ IsSome(tx.valueBalanceZat)
          /\ IsSome(tx.vShieldedSpend)
          /\ IsSome(tx.vShieldedOutput)
    /\ (AtLeast2(tx.version) /\ Len(tx.vjoinsplit) > 0) =>
          IsSome(tx.joinSplitPubKey) /\ IsSome(tx.joinSplitSig)

\* ZcashTransaction.prototype.encode, in the order of the encode descriptor
EncodeTransaction(tx) ==
    CustomEncodeVersionAndGroup(tx)
    \o WriteVector(EncodeTxIn, tx.vin)
    \o WriteVector(EncodeTxOut, tx.vout)
    \o tx.locktime
    \o CustomEncodeExpiryHeight(tx)
    \o CustomEncodeBalanceAndShielded(tx)
    \o CustomEncodeJoinSplit(tx)
    \o CustomEncodeBindingSig(tx)

\* a variant of isCoinbase that does not count the inputs
isCoinbase_AnyInputCount(tx) == Len(tx.vin) >= 1 /\ tx.vin[1].prevout.hash = NULL_HASH

\* isCoinbase: one input whose prevout hash is NULL_HASH
isCoinbase(tx) == Len(tx.vin) = 1 /\ tx.vin[1].prevout.hash = NULL_HASH

---------------------------------------------------------------------------
(* Porcelain of the transaction record *)

COIN == 100000000

\* n / COIN, a floating-point number of coins, kept as the pair it is computed from
Coins(n) == [zats |-> n, per |-> COIN]

\* scriptToAsmStr and solver of the script utility: functions of the script bytes
scriptToAsmStr(script) == [disassembled |-> ToHex(script)]
solverType(script) == [classified |-> ToHex(script)]

\* ZcashTransactionIn.toJSON(_, coinbase)
TransactionInToJSON(in, coinbase) ==
    IF coinbase
    THEN [coinbase |-> Some(ToHex(in.scriptSig)),
          txid |-> None, vout |-> None, scriptSig |-> None,
          sequence |-> in.sequence]
    ELSE [coinbase |-> None,
          txid |-> Some(toHashHex(in.prevout.hash)),
          vout |-> Some(in.prevout.n),
          scriptSig |-> Some([asm |-> scriptToAsmStr(in.scriptSig),
                              hex |-> ToHex(in.scriptSig)]),
          sequence |-> in.sequence]

\* ZcashTransactionOut.toJSON(n)
TransactionOutToJSON(out, n) ==
    [value |-> Coins(out.value),
     valueZat |-> out.value,
     valueSat |-> out.value,
     n |-> n,
     scriptPubKey |-> [asm |-> scriptToAsmStr(out.scriptPubKey),
                       hex |-> ToHex(out.scriptPubKey),
                       type |-> solverType(out.scriptPubKey)]]

\* ZcashJoinSplitDescription.toJSON
JoinSplitToJSON(js) ==
    [vpub_old |-> Coins(Number(js.vpub_oldZat)),
     vpub_oldZat |-> Number(js.vpub_oldZat),
     vpub_new |-> Coins(Number(js.vpub_newZat)),
     vpub_newZat |-> Number(js.vpub_newZat),
     anchor |-> toHashHex(js.anchor),
     nullifiers |-> [i \in 1..Len(js.nullifiers) |-> toHashHex(js.nullifiers[i])],
     commitments |-> [i \in 1..Len(js.commitments) |-> toHashHex(js.commitments[i])],
     onetimePubKey |-> toHashHex(js.onetimePubKey),
     randomSeed |-> toHashHex(js.randomSeed),
     macs |-> [i \in 1..Len(js.macs) |-> toHashHex(js.macs[i])],
     proof |-> ToHex(js.proof.bytes),
     ciphertexts |-> [i \in 1..Len(js.ciphertexts) |-> ToHex(js.ciphertexts[i])]]

\* ZcashSpendDescription.toJSON
SpendToJSON(sd) ==
    [cv |-> toHashHex(sd.cv), anchor |-> toHashHex(sd.anchor),
     nullifier |-> toHashHex(sd.nullifier), rk |-> toHashHex(sd.rk),
     proof |-> ToHex(sd.proof), spendAuthSig |-> ToHex(sd.spendAuthSig)]

\* ZcashOutputDescription.toJSON
OutputToJSON(od) ==
    [cv |-> toHashHex(od.cv), cmu |-> toHashHex(od.cmu),
     ephemeralKey |-> toHashHex(od.ephemeralKey),
     encCiphertext |-> ToHex(od.encCiphertext),
     outCiphertext |-> ToHex(od.outCiphertext), proof |-> ToHex(od.proof)]

\* versiongroupid.toString(16).padStart(8, '0'): eight hex digits, high first
VersionGroupHex(v) == ToHex(Reverse(v))

\* ZcashTransaction.toJSON
TransactionToJSON(tx) ==
    LET coinbase == isCoinbase(tx)
        sapling == IsSome(tx.valueBalanceZat)
        js == IsSome(tx.joinSplitSig) /\ IsSome(tx.joinSplitPubKey)
    IN [txid |-> toHashHex(tx.txid),
        overwintered |-> tx.overwintered,
        version |-> tx.version,
        locktime |-> tx.locktime,
        vjoinsplit |-> [i \in 1..Len(tx.vjoinsplit) |-> JoinSplitToJSON(tx.vjoinsplit[i])],
        vin |-> [i \in 1..Len(tx.vin) |-> TransactionInToJSON(tx.vin[i], coinbase)],
        vout |-> [i \in 1..Len(tx.vout) |-> TransactionOutToJSON(tx.vout[i], i - 1)],
        expiryheight |-> IF tx.overwintered THEN Some(tx.expiryheight) ELSE None,
        versiongroupid |->
            IF tx.overwintered THEN Some(VersionGroupHex(tx.versiongroupid)) ELSE None,
        valueBalance |->
            IF sapling THEN Some(Coins(Number(Get(tx.valueBalanceZat)))) ELSE None,
        valueBalanceZat |-> IF sapling THEN tx.valueBalanceZat ELSE None,
        vShieldedSpend |->
            IF sapling
            THEN Some([i \in 1..Len(Get(tx.vShieldedSpend)) |->
                          SpendToJSON(Get(tx.vShieldedSpend)[i])])
            ELSE None,
        vShieldedOutput |->
            IF sapling
            THEN Some([i \in 1..Len(Get(tx.vShieldedOutput)) |->
                          OutputToJSON(Get(tx.vShieldedOutput)[i])])
            ELSE None,
        joinSplitSig |-> IF js THEN Some(ToHex(Get(tx.joinSplitSig))) ELSE None,
        joinSplitPubKey |-> IF js THEN Some(ToHex(Get(tx.joinSplitPubKey))) ELSE None,
        bindingSig |-> IF IsSome(tx.bindingSig) THEN Some(ToHex(Get(tx.bindingSig))) ELSE None]

---------------------------------------------------------------------------
(* Objects from porcelain.  The porcelains are the ones toJSON gives, with the
   changes a caller makes to them, so every value has the type toJSON gave it *)

\* JavaScript truthiness of an optional string: present and not empty
Truthy(s) == IsSome(s) /\ Len(Get(s)) > 0

\* the checks of ZcashTransactionIn.fromPorcelain: the coinbase form is taken
\* when porcelain.coinbase is truthy, the txid form otherwise
TransactionInFromPorcelainAccepts(p) ==
    IF Truthy(p.coinbase) THEN isHexString(Get(p.coinbase), None)
    ELSE /\ IsSome(p.txid) /\ isHexString(Get(p.txid), Some(64))
         /\ IsSome(p.vout)
         /\ IsSome(p.scriptSig) /\ isHexString(Get(p.scriptSig).hex, None)

\* ZcashTransactionIn.fromPorcelain: the coinbase outpoint is always the null
\* hash with n = 0xffffffff
TransactionInFromPorcelain(p) ==
    IF Truthy(p.coinbase)
    THEN [prevout |-> [hash |-> Zeros(32), n |-> <<255, 255, 255, 255>>],
          scriptSig |-> FromHex(Get(p.coinbase)), sequence |-> p.sequence]
    ELSE [prevout |-> [hash |-> fromHashHex(Get(p.txid)), n |-> Get(p.vout)],
          scriptSig |-> FromHex(Get(p.scriptSig).hex), sequence |-> p.sequence]

\* Math.round(value * COIN) of value = zats / COIN: the zats again for every
\* amount below 2^51, where the two roundings stay under one half, and for
\* 2^53, the one larger amount of the inputs
MathRoundCoins(value) == value.zats

\* the checks of ZcashTransactionOut.fromPorcelain
TransactionOutFromPorcelainAccepts(p) == isHexString(p.scriptPubKey.hex, None)

\* ZcashTransactionOut.fromPorcelain: the value comes from the coins, not
\* from valueZat
TransactionOutFromPorcelain(p) ==
    [value |-> MathRoundCoins(p.value), scriptPubKey |-> FromHex(p.scriptPubKey.hex)]

\* the checks of ZcashSpendDescription.fromPorcelain
SpendFromPorcelainAccepts(p) ==
    /\ isHexString(p.cv, Some(64))
    /\ isHexString(p.anchor, Some(64))
    /\ isHexString(p.nullifier, Some(64))
    /\ isHexString(p.rk, Some(64))
    /\ isHexString(p.spendAuthSig, None)
    /\ isHexString(p.proof, Some(GROTH_PROOF_BYTES * 2))

\* ZcashSpendDescription.fromPorcelain
SpendFromPorcelain(p) ==
    [cv |-> fromHashHex(p.cv), anchor |-> fromHashHex(p.anchor),
     nullifier |-> fromHashHex(p.nullifier), rk |-> fromHashHex(p.rk),
     proof |-> FromHex(p.proof), spendAuthSig |-> FromHex(p.spendAuthSig)]

\* the checks of ZcashOutputDescription.fromPorcelain
OutputFromPorcelainAccepts(p) ==
    /\ isHexString(p.cv, Some(64))
    /\ isHexString(p.cmu, Some(64))
    /\ isHexString(p.ephemeralKey, Some(64))
    /\ isHexString(p.encCiphertext, Some(ENC_CIPHERTEXT_BYTES * 2))
    /\ isHexString(p.outCiphertext, Some(OUT_CIPHERTEXT_BYTES * 2))
    /\ isHexString(p.proof, Some(GROTH_PROOF_BYTES * 2))

\* ZcashOutputDescription.fromPorcelain
OutputFromPorcelain(p) ==
    [cv |-> fromHashHex(p.cv), cmu |-> fromHashHex(p.cmu),
     ephemeralKey |-> fromHashHex(p.ephemeralKey),
     encCiphertext |-> FromHex(p.encCiphertext),
     outCiphertext |-> FromHex(p.outCiphertext), proof |-> FromHex(p.proof)]

\* an array of exactly two 64-character hex strings
IsHashPair(a) == Len(a) = 2 /\ \A i \in 1..Len(a) : isHexString(a[i], Some(64))

\* the checks of ZcashJoinSplitDescription.fromPorcelain: nullifiers,
\* commitments and macs are checked for their length, ciphertexts only for
\* being an array, then each ciphertext for its 1202 characters
JoinSplitFromPorcelainAccepts(p) ==
    /\ isHexString(p.anchor, Some(64))
    /\ IsHashPair(p.nullifiers)
    /\ IsHashPair(p.commitments)
    /\ isHexString(p.onetimePubKey, Some(64))
    /\ isHexString(p.randomSeed, Some(64))
    /\ IsHashPair(p.macs)
    /\ isHexString(p.proof, None)
    /\ \A i \in 1..Len(p.ciphertexts) :
          isHexString(p.ciphertexts[i], Some(JS_CIPHERTEXT_BYTES * 2))

\* ZcashJoinSplitDescription.fromPorcelain: the amounts are the numbers of the
\* porcelain, held as the eight bytes the CAmount encoder writes for them; the
\* proof is a Buffer whatever it was decoded as
JoinSplitFromPorcelain(p) ==
    [vpub_oldZat |-> NumberToInt64(p.vpub_oldZat),
     vpub_newZat |-> NumberToInt64(p.vpub_newZat),
     anchor |-> fromHashHex(p.anchor),
     nullifiers |-> [i \in 1..Len(p.nullifiers) |-> fromHashHex(p.nullifiers[i])],
     commitments |-> [i \in 1..Len(p.commitments) |-> fromHashHex(p.commitments[i])],
     onetimePubKey |-> fromHashHex(p.onetimePubKey),
     randomSeed |-> fromHashHex(p.randomSeed),
     macs |-> [i \in 1..Len(p.macs) |-> fromHashHex(p.macs[i])],
     proof |-> [isBuffer |-> TRUE, bytes |-> FromHex(p.proof)],
     ciphertexts |-> [i \in 1..Len(p.ciphertexts) |-> FromHex(p.ciphertexts[i])]]

\* the checks of ZcashTransaction.fromPorcelain and of the fromPorcelain of
\* every element it maps
TransactionPorcelainChecks(p) ==
    /\ p.overwintered => (IsSome(p.versiongroupid) /\ IsSome(p.expiryheight))
    /\ \A i \in 1..Len(p.vin) : TransactionInFromPorcelainAccepts(p.vin[i])
    /\ \A i \in 1..Len(p.vout) : TransactionOutFromPorcelainAccepts(p.vout[i])
    /\ IsSome(p.vShieldedSpend) =>
          \A i \in 1..Len(Get(p.vShieldedSpend)) :
              SpendFromPorcelainAccepts(Get(p.vShieldedSpend)[i])
    /\ IsSome(p.vShieldedOutput) =>
          \A i \in 1..Len(Get(p.vShieldedOutput)) :
              OutputFromPorcelainAccepts(Get(p.vShieldedOutput)[i])
    /\ \A i \in 1..Len(p.vjoinsplit) : JoinSplitFromPorcelainAccepts(p.vjoinsplit[i])

\* a hex string property as a Buffer, null when the key is absent or not hex
HexOrNull(s) == IF IsSome(s) /\ isHexString(Get(s), None) THEN Some(FromHex(Get(s))) ELSE None

\* new ZcashTransaction(...) of fromPorcelain, before rawBytes and txid are
\* set.  valueBalanceZat stays null: toJSON passes the BigInt on, and the
\* value is taken only when typeof gives 'number'
TransactionFromPorcelainBuilt(p) ==
    Transaction(<<p.overwintered,
                  p.version,
                  IF ~p.overwintered THEN Zeros(4) ELSE Get(ParseInt16(Get(p.versiongroupid))),
                  [i \in 1..Len(p.vin) |-> TransactionInFromPorcelain(p.vin[i])],
                  [i \in 1..Len(p.vout) |-> TransactionOutFromPorcelain(p.vout[i])],
                  p.locktime,
                  IF ~p.overwintered THEN Zeros(4) ELSE Get(p.expiryheight),
                  None,
                  IF IsSome(p.vShieldedSpend)
                  THEN Some([i \in 1..Len(Get(p.vShieldedSpend)) |->
                                SpendFromPorcelain(Get(p.vShieldedSpend)[i])])
                  ELSE None,
                  IF IsSome(p.vShieldedOutput)
                  THEN Some([i \in 1..Len(Get(p.vShieldedOutput)) |->
                                OutputFromPorcelain(Get(p.vShieldedOutput)[i])])
                  ELSE None,
                  [i \in 1..Len(p.vjoinsplit) |-> JoinSplitFromPorcelain(p.vjoinsplit[i])],
                  HexOrNull(p.joinSplitPubKey),
                  HexOrNull(p.joinSplitSig),
                  HexOrNull(p.bindingSig),
                  <<>>, <<>>>>)

\* does ZcashTransaction.fromPorcelain return: the checks pass, the group id
\* parses to a number the encoder can write, and the encode() it ends with
\* does not throw
TransactionFromPorcelainAccepts(p) ==
    /\ TransactionPorcelainChecks(p)
    /\ p.overwintered => IsSome(ParseInt16(Get(p.versiongroupid)))
    /\ \A i \in 1..Len(p.vjoinsplit) :
          FitsInt64(p.vjoinsplit[i].vpub_oldZat) /\ FitsInt64(p.vjoinsplit[i].vpub_newZat)
    /\ TransactionEncodes(TransactionFromPorcelainBuilt(p))

\* a variant of fromPorcelain that keeps the txid the porcelain names
TransactionFromPorcelain_KeepsTxid(p) ==
    [TransactionFromPorcelainBuilt(p) EXCEPT
        !.rawBytes = ToHex(EncodeTransaction(TransactionFromPorcelainBuilt(p))),
        !.txid = fromHashHex(p.txid)]

\* ZcashTransaction.fromPorcelain: rawBytes is the hex of encode(), txid its
\* double hash
TransactionFromPorcelain(p) ==
    [TransactionFromPorcelainBuilt(p) EXCEPT
        !.rawBytes = ToHex(EncodeTransaction(TransactionFromPorcelainBuilt(p))),
        !.txid = dblSha2256(EncodeTransaction(TransactionFromPorcelainBuilt(p)))]

---------------------------------------------------------------------------
(* The block record *)

\* 0x1f07ffff as a number
GENESIS_BITS == <<255, 255, 7, 31>>

\* targetDifficulty(bits): target = bits & 0xffffff, doubled 8 * ((bits >>> 24) - 3)
\* times when that count is positive; the product is kept as the pair
\* (mantissa, number of doublings)
targetDifficulty(bits) ==
    LET target == bits[1] + 256 * bits[2] + 65536 * bits[3]
        mov == 8 * (bits[4] - 3)
    IN [mantissa |-> target, doublings |-> IF mov > 0 THEN mov ELSE 0]

\* the quotient genesisTargetDifficulty / currentTargetDifficulty, kept as the pair
ComputeDifficulty(bits) ==
    [num |-> targetDifficulty(GENESIS_BITS), den |-> targetDifficulty(bits)]

\* new ZcashBlock(...): the difficulty closure variable starts null
Block(version, previousblockhash, merkleroot, finalsaplingroot, time, bits, nonce, solution, hash, tx, size, headerOnly) ==
    [version |-> version, previousblockhash |-> previousblockhash,
     merkleroot |-> merkleroot, finalsaplingroot |-> finalsaplingroot,
     time |-> time, bits |-> bits, nonce |-> nonce, solution |-> solution,
     hash |-> hash, tx |-> tx, size |-> size,
     difficulty |-> None, headerOnly |-> headerOnly]

\* the difficulty getter: computed from this.bits on the first read, then cached
DifficultyRead(block) ==
    IF ~IsSome(block.difficulty) THEN ComputeDifficulty(block.bits) ELSE Get(block.difficulty)

\* the block after a read of the difficulty getter
AfterDifficultyRead(block) == [block EXCEPT !.difficulty = Some(DifficultyRead(block))]

\* _customDecoderMarkStart; hashEndPos is the cursor the hash hook will see,
\* kept for the properties about the hashed span
CustomDecoderMarkStart(b, d) ==
    [d EXCEPT !.state = [blockStartPos |-> d.pos, hashEndPos |-> d.pos]]

\* _customDecodeHash of the block: the double hash of the slice from the mark
\* to the cursor
BlockCustomDecodeHash(b, d) ==
    [d EXCEPT !.properties = Append(@, dblSha2256(absoluteSlice(b, d.state.blockStartPos,
                                                  d.pos - d.state.blockStartPos))),
              !.state.hashEndPos = d.pos]

\* a variant of _customDecodeSize that measures from the end of the hashed span
BlockCustomDecodeSize_FromHashEnd(b, d) == Push(d, d.pos - d.state.hashEndPos)

\* _customDecodeSize
BlockCustomDecodeSize(b, d) == Push(d, d.pos - d.state.blockStartPos)

ReadTransactions(b, pos) == ReadVector(DecodeTransaction, b, pos)

\* the lines the two descriptors share: the mark, the eight header fields and
\* the hash hook
DecodeHeaderFields(b, pos) ==
    Hook(BlockCustomDecodeHash, b,
    Then(ReadVarBytes, b,
    Then(ReadUint256, b,
    Then(ReadUint32, b,
    Then(ReadUint32, b,
    Then(ReadUint256, b,
    Then(ReadUint256, b,
    Then(ReadUint256, b,
    Then(ReadUint32, b,
    Hook(CustomDecoderMarkStart, b, Begin(pos, <<>>)))))))))))

\* new ZcashBlock(...properties), with the positions the hooks of the block and
\* of its transactions saw
DecodedBlock(d) ==
    [block |-> Block(d.properties[1], d.properties[2], d.properties[3], d.properties[4],
                     d.properties[5], d.properties[6], d.properties[7], d.properties[8],
                     Some(d.properties[9]),
                     Some([i \in 1..Len(d.properties[10]) |-> d.properties[10][i].tx]),
                     Some(d.properties[11]), FALSE),
     blockStartPos |-> d.state.blockStartPos,
     hashEnd |-> d.state.hashEndPos,
     txStart |-> [i \in 1..Len(d.properties[10]) |->
                     d.properties[10][i].state.transactionStartPos],
     txEnd |-> [i \in 1..Len(d.properties[10]) |-> d.properties[10][i].endPos]]

\* new ZcashBlockHeaderOnly(...properties): no transactions and no size
DecodedHeaderOnly(d) ==
    [block |-> Block(d.properties[1], d.properties[2], d.properties[3], d.properties[4],
                     d.properties[5], d.properties[6], d.properties[7], d.properties[8],
                     Some(d.properties[9]), None, None, TRUE),
     blockStartPos |-> d.state.blockStartPos,
     hashEnd |-> d.state.hashEndPos,
     txStart |-> <<>>,
     txEnd |-> <<>>]

\* CBlockHeader: the header lines, the transaction vector, the size hook
DecodeBlockRecord(b, pos) ==
    Finish(DecodedBlock,
        Hook(BlockCustomDecodeSize, b,
        Then(ReadTransactions, b, DecodeHeaderFields(b, pos))), pos)

\* CBlockHeader__Only
DecodeHeaderOnlyRecord(b, pos) == Finish(DecodedHeaderOnly, DecodeHeaderFields(b, pos), pos)

\* coding.decodeType(buf, type, strictLengthUsage): the record from position 0;
\* with strict, input left over after the record is an error
decodeType(R(_, _), b, strictLengthUsage) ==
    LET r == R(b, 0)
    IN IF ~r.ok THEN Fail(0)
       ELSE IF strictLengthUsage /\ r.pos # Len(b) THEN Fail(r.pos)
       ELSE r

\* _customEncodeTransactions: the vector when block.tx is an array
CustomEncodeTransactions(block) ==
    IF IsSome(block.tx) THEN WriteVector(EncodeTransaction, Get(block.tx)) ELSE <<>>

\* can every transaction of the block be encoded
BlockEncodes(block) ==
    IsSome(block.tx) =>
        \A i \in 1..Len(Get(block.tx)) : TransactionEncodes(Get(block.tx)[i])

\* ZcashBlock.prototype.encode / ZcashBlockHeaderOnly.prototype.encode
EncodeBlock(block) ==
    block.version \o block.previousblockhash \o block.merkleroot
    \o block.finalsaplingroot \o block.time \o block.bits \o block.nonce
    \o WriteVarBytes(block.solution)
    \o (IF block.headerOnly THEN <<>> ELSE CustomEncodeTransactions(block))

\* Number(bits).toString(16): hex digits, high first, no leading zeros
BitsToString16(bits) ==
    LET digits == ToHex(Reverse(bits))
        nz == {i \in 1..8 : digits[i] # 0}
        first == IF nz = {} THEN 8 ELSE CHOOSE i \in nz : \A j \in nz : i <= j
    IN SubSeq(digits, first, 8)

\* a variant of obj.tx whose 'min' entries are the hex of the txid bytes as stored
BlockToJSONTransactions_Unreversed(block, type) ==
    IF type = "min"
    THEN [i \in 1..Len(Get(block.tx)) |-> ToHex(Get(block.tx)[i].txid)]
    ELSE [i \in 1..Len(Get(block.tx)) |-> TransactionToJSON(Get(block.tx)[i])]

\* obj.tx of toJSON: the byte-reversed hex txids for 'min', the transactions'
\* own toJSON otherwise
BlockToJSONTransactions(block, type) ==
    IF type = "min"
    THEN [i \in 1..Len(Get(block.tx)) |-> toHashHex(Get(block.tx)[i].txid)]
    ELSE [i \in 1..Len(Get(block.tx)) |-> TransactionToJSON(Get(block.tx)[i])]

\* ZcashBlock.toJSON(_, type)
BlockToJSON(block, type) ==
    LET header == type = "header" \/ ~IsSome(block.size) \/ ~IsSome(block.tx)
    IN [hash |-> toHashHex(Get(block.hash)),
        version |-> block.version,
        merkleroot |-> toHashHex(block.merkleroot),
        finalsaplingroot |-> toHashHex(block.finalsaplingroot),
        time |-> block.time,
        nonce |-> toHashHex(block.nonce),
        solution |-> ToHex(block.solution),
        bits |-> BitsToString16(block.bits),
        difficulty |-> DifficultyRead(block),
        previousblockhash |->
            IF \A i \in 1..32 : block.previousblockhash[i] = 0
            THEN None ELSE Some(toHashHex(block.previousblockhash)),
        size |-> IF header THEN None ELSE block.size,
        tx |-> IF header THEN None ELSE Some(BlockToJSONTransactions(block, type))]

\* the checks of ZcashBlock.fromPorcelain on a porcelain whose values have the
\* types toJSON gives them
FromPorcelainAccepts(p) ==
    /\ IsSome(p.previousblockhash) => isHexString(Get(p.previousblockhash), Some(64))
    /\ isHexString(p.merkleroot, Some(64))
    /\ isHexString(p.finalsaplingroot, Some(64))
    /\ isHexString(p.nonce, Some(64))
    /\ isHexString(p.solution, Some(SOLUTION_BYTES * 2))

\* a variant of fromPorcelain that keeps the hash the porcelain names
BlockFromPorcelain_KeepsHash(p) ==
    LET tx == None
        block == Block(p.version,
                       IF IsSome(p.previousblockhash)
                       THEN fromHashHex(Get(p.previousblockhash)) ELSE Zeros(32),
                       fromHashHex(p.merkleroot),
                       fromHashHex(p.finalsaplingroot),
                       p.time,
                       Get(ParseInt16(p.bits)),
                       fromHashHex(p.nonce),
                       FromHex(p.solution),
                       None, tx, None, FALSE)
        rawData == EncodeBlock(block)
        slice == SubSeq(rawData, 1, IF Len(rawData) < HEADER_BYTES
                                    THEN Len(rawData) ELSE HEADER_BYTES)
    IN [block EXCEPT !.hash = Some(fromHashHex(p.hash)),
                     !.size = IF IsSome(tx) THEN Some(Len(rawData)) ELSE None]

\* the block ZcashBlock.fromPorcelain constructs: tx is left undefined, so no
\* size is set; the hash is the double hash of the first HEADER_BYTES of encode()
BlockFromPorcelain(p) ==
    LET tx == None
        block == Block(p.version,
                       IF IsSome(p.previousblockhash)
                       THEN fromHashHex(Get(p.previousblockhash)) ELSE Zeros(32),
                       fromHashHex(p.merkleroot),
                       fromHashHex(p.finalsaplingroot),
                       p.time,
                       Get(ParseInt16(p.bits)),
                       fromHashHex(p.nonce),
                       FromHex(p.solution),
                       None, tx, None, FALSE)
        rawData == EncodeBlock(block)
        slice == SubSeq(rawData, 1, IF Len(rawData) < HEADER_BYTES
                                    THEN Len(rawData) ELSE HEADER_BYTES)
    IN [block EXCEPT !.hash = Some(dblSha2256(slice)),
                     !.size = IF IsSome(tx) THEN Some(Len(rawData)) ELSE None]

\* a variant of the leaves that takes the txids last to first
CalculateMerkleRootLeaves_Reversed(block) ==
    [i \in 1..Len(Get(block.tx)) |-> Get(block.tx)[Len(Get(block.tx)) + 1 - i].txid]

\* calculateMerkleRoot: the leaves are the txids in tx order
CalculateMerkleRootLeaves(block) == [i \in 1..Len(Get(block.tx)) |-> Get(block.tx)[i].txid]

\* calculateMerkleRoot throws without transactions
CalculateMerkleRootThrows(block) == ~IsSome(block.tx) \/ Len(Get(block.tx)) = 0

---------------------------------------------------------------------------
(* The inputs: byte strings in the wire format, built field by field *)

\* n bytes that differ from place to place
Pattern(n, seed) == [i \in 1..n |-> (seed + 5 * i) % 256]

\* a compressed G1 / G2 point: a tag byte, then 32 / 64 bytes
WireG1(seed) == <<2 + (seed % 2)>> \o Pattern(32, seed)
WireG2(seed) == <<10 + (seed % 2)>> \o Pattern(64, seed)

WirePHGRProof ==
    WireG1(1) \o WireG1(2) \o WireG2(3) \o WireG1(4) \o WireG1(5) \o WireG1(6)
    \o WireG1(7) \o WireG1(8)

\* a JoinSplit description with the given proof bytes
WireJoinSplit(proof) ==
    <<16, 39, 0, 0, 0, 0, 0, 0>> \o Zeros(8) \o Pattern(32, 11)
    \o Pattern(32, 12) \o Pattern(32, 13) \o Pattern(32, 14) \o Pattern(32, 15)
    \o Pattern(32, 16) \o Pattern(32, 17) \o Pattern(32, 18) \o Pattern(32, 19)
    \o proof \o Pattern(JS_CIPHERTEXT_BYTES, 20) \o Pattern(JS_CIPHERTEXT_BYTES, 21)

WireSpend ==
    Pattern(32, 31) \o Pattern(32, 32) \o Pattern(32, 33) \o Pattern(32, 34)
    \o Pattern(GROTH_PROOF_BYTES, 35) \o Pattern(SIG_BYTES, 36)

WireOutput ==
    Pattern(32, 41) \o Pattern(32, 42) \o Pattern(32, 43)
    \o Pattern(ENC_CIPHERTEXT_BYTES, 44) \o Pattern(OUT_CIPHERTEXT_BYTES, 45)
    \o Pattern(GROTH_PROOF_BYTES, 46)

\* the coinbase input: null prevout hash, n = 0xffffffff, a 2-byte script
WireCoinbaseIn == Zeros(32) \o <<255, 255, 255, 255>> \o <<2, 81, 82>> \o <<255, 255, 255, 255>>
\* an ordinary input
WireIn == Pattern(32, 51) \o <<1, 0, 0, 0>> \o <<3, 71, 72, 73>> \o <<254, 255, 255, 255>>
\* an output of 5000 zats
WireOut == <<136, 19, 0, 0, 0, 0, 0, 0>> \o <<3, 118, 169, 20>>
\* an output of 2^53 + 1 zats
WireBigOut == <<1, 0, 0, 0, 0, 0, 32, 0>> \o <<1, 81>>

TxKinds == 1..9

\* the transactions of the input space, by kind
WireTx(kind) ==
    CASE kind = 1 ->  \* legacy v1 coinbase
           <<1, 0, 0, 0>> \o <<1>> \o WireCoinbaseIn \o <<1>> \o WireOut \o Zeros(4)
      [] kind = 2 ->  \* legacy v1 paying 2^53 + 1 zats
           <<1, 0, 0, 0>> \o <<1>> \o WireIn \o <<2>> \o WireOut \o WireBigOut \o <<7, 0, 0, 0>>
      [] kind = 3 ->  \* legacy v2 with one JoinSplit (PHGR proof)
           <<2, 0, 0, 0>> \o <<1>> \o WireIn \o <<0>> \o Zeros(4)
           \o <<1>> \o WireJoinSplit(WirePHGRProof) \o Pattern(32, 61) \o Pattern(SIG_BYTES, 62)
      [] kind = 4 ->  \* legacy v2 without JoinSplits
           <<2, 0, 0, 0>> \o <<1>> \o WireIn \o <<1>> \o WireOut \o <<9, 0, 0, 0>> \o <<0>>
      [] kind = 5 ->  \* Overwinter v3
           <<3, 0, 0, 128>> \o OVERWINTER_VERSION_GROUP_ID \o <<1>> \o WireIn \o <<1>> \o WireOut
           \o Zeros(4) \o <<44, 1, 0, 0>> \o <<0>>
      [] kind = 6 ->  \* Sapling v4 without shielded data
           <<4, 0, 0, 128>> \o SAPLING_VERSION_GROUP_ID \o <<1>> \o WireIn \o <<1>> \o WireOut
           \o Zeros(4) \o <<45, 1, 0, 0>> \o Zeros(8) \o <<0>> \o <<0>> \o <<0>>
      [] kind = 7 ->  \* Sapling v4 with a spend, an output, a JoinSplit (Groth) and bindingSig
           <<4, 0, 0, 128>> \o SAPLING_VERSION_GROUP_ID \o <<0>> \o <<0>>
           \o Zeros(4) \o <<46, 1, 0, 0>> \o <<255, 255, 255, 255, 255, 255, 255, 255>>
           \o <<1>> \o WireSpend \o <<1>> \o WireOutput
           \o <<1>> \o WireJoinSplit(Pattern(GROTH_PROOF_BYTES, 63))
           \o Pattern(32, 64) \o Pattern(SIG_BYTES, 65)
           \o Pattern(SIG_BYTES, 66)
      [] kind = 8 ->  \* overwintered, version 4 with the Overwinter group id: unknown shape
           <<4, 0, 0, 128>> \o OVERWINTER_VERSION_GROUP_ID \o <<0>> \o <<0>> \o Zeros(4)
           \o Zeros(4) \o <<0>>
      [] kind = 10 -> \* Overwinter v3 with one JoinSplit (PHGR proof)
           <<3, 0, 0, 128>> \o OVERWINTER_VERSION_GROUP_ID \o <<1>> \o WireIn \o <<0>>
           \o Zeros(4) \o <<48, 1, 0, 0>>
           \o <<1>> \o WireJoinSplit(WirePHGRProof) \o Pattern(32, 71) \o Pattern(SIG_BYTES, 72)
      [] OTHER ->     \* legacy v1 with no input and no output
           <<1, 0, 0, 0>> \o <<0>> \o <<0>> \o <<8, 0, 0, 0>>

\* a legacy v1 coinbase whose input has the given prevout n and script
WireCoinbaseTx(n, script) ==
    <<1, 0, 0, 0>> \o <<1>> \o Zeros(32) \o n \o <<Len(script)>> \o script
    \o <<255, 255, 255, 255>> \o <<1>> \o WireOut \o Zeros(4)

\* a legacy v1 transaction of two inputs, the first with the null prevout hash
WireTwoInputTx ==
    <<1, 0, 0, 0>> \o <<2>> \o WireCoinbaseIn \o WireIn \o <<1>> \o WireOut \o Zeros(4)

\* a Sapling v4 transaction with the given numbers of shielded spends and
\* outputs and nothing else, the binding signature following when there is one
WireShieldedTx(spends, outputs) ==
    <<4, 0, 0, 128>> \o SAPLING_VERSION_GROUP_ID \o <<0>> \o <<0>>
    \o Zeros(4) \o <<47, 1, 0, 0>> \o <<16, 39, 0, 0, 0, 0, 0, 0>>
    \o <<spends>> \o Concat([i \in 1..spends |-> WireSpend])
    \o <<outputs>> \o Concat([i \in 1..outputs |-> WireOutput])
    \o <<0>>
    \o (IF spends + outputs > 0 THEN Pattern(SIG_BYTES, 67) ELSE <<>>)

HeaderKinds == {"normal", "genesis", "short"}

\* the header bytes: "genesis" has an all-zero previous block hash, "short" a
\* 3-byte solution, the others a solution of SOLUTION_BYTES bytes
WireHeader(hk) ==
    <<4, 0, 0, 0>>
    \o (IF hk = "genesis" THEN Zeros(32) ELSE Pattern(32, 81))
    \o Pattern(32, 82) \o Pattern(32, 83)
    \o <<21, 205, 91, 7>> \o <<255, 255, 7, 31>> \o Pattern(32, 84)
    \o (IF hk = "short" THEN <<3, 1, 2, 3>>
        ELSE <<253, SOLUTION_BYTES % 256, SOLUTION_BYTES \div 256>>
             \o Pattern(SOLUTION_BYTES, 85))

\* the kinds of the n transactions of a block, starting at kind k
BlockTxKinds(n, k) == [i \in 1..n |-> ((k + i - 2) % Cardinality(TxKinds)) + 1]

\* a block: header, compact-size count, transactions; trail > 0 appends bytes,
\* trail < 0 cuts the last byte off
WireBlock(hk, kinds, trail) ==
    LET whole == WireHeader(hk) \o <<Len(kinds)>>
                 \o Concat([i \in 1..Len(kinds) |-> WireTx(kinds[i])])
    IN IF trail < 0 THEN SubSeq(whole, 1, Len(whole) - 1) ELSE whole \o Fill(trail, 171)

---------------------------------------------------------------------------
(* The state machine: one input, the object decoded from it (blk: a block, a
   header-only block or a transaction), a porcelain taken from the decoded
   block, the block rebuilt from the porcelain (blk2), the porcelain taken
   from a decoded transaction (txp), the transaction rebuilt from it (tx2),
   the change the caller made to the porcelain before fromPorcelain (edit),
   and the result of the last encode / toPorcelain / calculateMerkleRoot /
   JoinSplit fromPorcelain call (res) *)

Types == {"default", "min", "header"}

\* the inputs: one-transaction blocks of every kind, blocks of 0..MaxTx
\* transactions, every header kind, truncated and trailed blocks, bare headers
\* (one with a short solution filled up to HEADER_BYTES) and bare transactions,
\* two of them coinbases with a prevout n of 0 and with an empty script, one
\* with a null prevout hash in the first of two inputs, two with shielded
\* spends only and with shielded outputs only
Inputs ==
    {WireBlock("normal", <<k>>, 0) : k \in TxKinds}
    \cup {WireBlock("normal", BlockTxKinds(n, 1), 0) : n \in 0..MaxTx}
    \cup {WireBlock("normal", BlockTxKinds(MaxTx, k), 0) : k \in {4, 7, 9 - MaxTx}}
    \cup {WireBlock(hk, <<1>>, 0) : hk \in HeaderKinds}
    \cup {WireBlock("normal", <<1>>, trail) : trail \in (-1)..MaxTrail}
    \cup {WireHeader(hk) : hk \in HeaderKinds}
    \cup {WireHeader("normal") \o Fill(trail, 171) : trail \in 1..MaxTrail}
    \cup {WireHeader("short") \o Fill(HEADER_BYTES - Len(WireHeader("short")), 171)}
    \cup {WireTx(k) : k \in TxKinds}
    \cup {WireTx(1) \o Fill(trail, 171) : trail \in 1..MaxTrail}
    \cup {WireCoinbaseTx(<<0, 0, 0, 0>>, <<81>>), WireCoinbaseTx(<<255, 255, 255, 255>>, <<>>)}
    \cup {WireTwoInputTx}
    \cup {WireShieldedTx(1, 0), WireShieldedTx(0, 1)}

Unset == [status |-> "none", form |-> "none", val |-> None]
NoResult == [op |-> "none", on |-> "none", type |-> "none", index |-> 0,
             threw |-> FALSE, bytes |-> None, json |-> None, root |-> None,
             obj |-> None]

\* no transaction porcelain taken yet
NoPorcelain == [status |-> "none", val |-> None]

Init ==
    /\ buf \in Inputs
    /\ strict \in BOOLEAN
    /\ blk = Unset
    /\ porcelain = [status |-> "none", type |-> "none", val |-> None]
    /\ blk2 = Unset
    /\ res = NoResult
    /\ txp = NoPorcelain
    /\ tx2 = Unset
    /\ edit = "none"

\* what a decode call leaves: the object, or the throw
Decoded(form, r) ==
    IF r.ok THEN [status |-> "ok", form |-> form, val |-> Some(r.val)]
    ELSE [status |-> "throw", form |-> form, val |-> None]

\* the block object a call is made on
Target(on) == IF on = "blk" THEN blk ELSE blk2
HasBlock(on) == Target(on).status = "ok" /\ Target(on).form # "transaction"
TheBlock(on) == Get(Target(on).val).block

\* the transactions the decoded object holds: the block's, or the transaction itself
DecodedTransactions ==
    IF blk.status # "ok" THEN <<>>
    ELSE IF blk.form = "transaction" THEN <<Get(blk.val).tx>>
    ELSE IF blk.form = "block" THEN Get(TheBlock("blk").tx)
    ELSE <<>>

\* a variant of ZcashBlock.decode that does not pass strictLengthUsage on
DecodeBlock_IgnoresStrict ==
    /\ blk.status = "none"
    /\ blk' = Decoded("block", decodeType(DecodeBlockRecord, buf, FALSE))
    /\ UNCHANGED <<buf, strict, porcelain, blk2, res, txp, tx2, edit>>

\* ZcashBlock.decode(buf, strict)
DecodeBlock ==
    /\ blk.status = "none"
    /\ blk' = Decoded("block", decodeType(DecodeBlockRecord, buf, strict))
    /\ UNCHANGED <<buf, strict, porcelain, blk2, res, txp, tx2, edit>>

\* ZcashBlock.decodeHeaderOnly(buf, strict)
DecodeHeaderOnly ==
    /\ blk.status = "none"
    /\ blk' = Decoded("header", decodeType(DecodeHeaderOnlyRecord, buf, strict))
    /\ UNCHANGED <<buf, strict, porcelain, blk2, res, txp, tx2, edit>>

\* ZcashTransaction.decode(buf, strict)
TransactionDecode ==
    /\ blk.status = "none"
    /\ blk' = Decoded("transaction", decodeType(DecodeTransaction, buf, strict))
    /\ UNCHANGED <<buf, strict, porcelain, blk2, res, txp, tx2, edit>>

\* a variant of encode() that records the length it wrote as the block's size
Encode_SetsSize(on) ==
    /\ HasBlock(on)
    /\ res' = IF BlockEncodes(TheBlock(on))
              THEN [NoResult EXCEPT !.op = "encode", !.on = on,
                                    !.bytes = Some(EncodeBlock(TheBlock(on)))]
              ELSE [NoResult EXCEPT !.op = "encode", !.on = on, !.threw = TRUE]
    /\ IF ~BlockEncodes(TheBlock(on)) THEN UNCHANGED <<blk, blk2>>
       ELSE IF on = "blk"
       THEN /\ blk' = [blk EXCEPT !.val = Some([Get(blk.val) EXCEPT !.block.size =
                            Some(Len(EncodeBlock(TheBlock(on))))])]
            /\ UNCHANGED blk2
       ELSE /\ blk2' = [blk2 EXCEPT !.val = Some([Get(blk2.val) EXCEPT !.block.size =
                            Some(Len(EncodeBlock(TheBlock(on))))])]
            /\ UNCHANGED blk
    /\ UNCHANGED <<buf, strict, porcelain, txp, tx2, edit>>

\* block.encode() on the decoded or the rebuilt block
Encode(on) ==
    /\ HasBlock(on)
    /\ res' = IF BlockEncodes(TheBlock(on))
              THEN [NoResult EXCEPT !.op = "encode", !.on = on,
                                    !.bytes = Some(EncodeBlock(TheBlock(on)))]
              ELSE [NoResult EXCEPT !.op = "encode", !.on = on, !.threw = TRUE]
    /\ UNCHANGED <<buf, strict, blk, porcelain, blk2, txp, tx2, edit>>

\* transaction.encode() on the i-th decoded transaction
TransactionEncode(i) ==
    /\ i \in 1..Len(DecodedTransactions)
    /\ res' = IF TransactionEncodes(DecodedTransactions[i])
              THEN [NoResult EXCEPT !.op = "tx.encode", !.on = "blk", !.index = i,
                                    !.bytes = Some(EncodeTransaction(DecodedTransactions[i]))]
              ELSE [NoResult EXCEPT !.op = "tx.encode", !.on = "blk", !.index = i,
                                    !.threw = TRUE]
    /\ UNCHANGED <<buf, strict, blk, porcelain, blk2, txp, tx2, edit>>

\* the decoded block's toPorcelain(type), kept for fromPorcelain; the getter
\* it reads caches the difficulty in the block
ToPorcelain(type) ==
    /\ HasBlock("blk")
    /\ porcelain.status = "none"
    /\ txp.status = "none"
    /\ porcelain' = [status |-> "ok", type |-> type,
                     val |-> Some(BlockToJSON(TheBlock("blk"), type))]
    /\ blk' = [blk EXCEPT !.val = Some([Get(blk.val) EXCEPT
                                          !.block = AfterDifficultyRead(TheBlock("blk"))])]
    /\ UNCHANGED <<buf, strict, blk2, res, txp, tx2, edit>>

\* the changes a caller makes to a block porcelain before fromPorcelain: a
\* number given as a string, a hex string two characters short, bits followed
\* by two characters that are not hex digits, bits given as the number 5,
\* another hash
BlockEdits ==
    {"none", "version:string", "time:string", "merkleroot:short",
     "finalsaplingroot:short", "nonce:short", "solution:short",
     "previousblockhash:short", "bits:nonhex", "bits:number", "hash"}

\* the changes tried on a porcelain: all of them on the header-mode porcelain
\* of a header-only decode of an input of HEADER_BYTES bytes, none otherwise
BlockEditsFor(form, type, length) ==
    IF form = "header" /\ type = "header" /\ length = HEADER_BYTES
    THEN BlockEdits ELSE {"none"}

\* a string without its last two characters
Shortened(str) == SubSeq(str, 1, Len(str) - 2)

\* the porcelain after the change; a character that is not a hex digit is 16,
\* and a value given with another type keeps the characters it prints as
EditBlockPorcelain(p, e) ==
    CASE e = "merkleroot:short" -> [p EXCEPT !.merkleroot = Shortened(@)]
      [] e = "finalsaplingroot:short" -> [p EXCEPT !.finalsaplingroot = Shortened(@)]
      [] e = "nonce:short" -> [p EXCEPT !.nonce = Shortened(@)]
      [] e = "solution:short" -> [p EXCEPT !.solution = Shortened(@)]
      [] e = "previousblockhash:short" ->
           [p EXCEPT !.previousblockhash = Some(Shortened(toHashHex(Fill(32, 1))))]
      [] e = "bits:nonhex" -> [p EXCEPT !.bits = @ \o <<16, 16>>]
      [] e = "bits:number" -> [p EXCEPT !.bits = <<5>>]
      [] e = "hash" -> [p EXCEPT !.hash = ToHex(Pattern(32, 70))]
      [] OTHER -> p

\* /^[0-9a-f]+$/.test(v) on the characters v prints as
HexRegexTest(str) == Len(str) > 0 /\ \A i \in 1..Len(str) : str[i] \in 0..15

\* the checks of ZcashBlock.fromPorcelain on the changed porcelain: the typeof
\* checks of version and time, the hex-string checks, and the bits check, which
\* throws only for a value that is not a string and fails the pattern
BlockPorcelainChecks(p, e) ==
    /\ e # "version:string"
    /\ e # "time:string"
    /\ FromPorcelainAccepts(p)
    /\ ~(e = "bits:number" /\ ~HexRegexTest(p.bits))

\* ZcashBlock.fromPorcelain(porcelain) on the porcelain with the caller's
\* change: throws when a check fails or encode() cannot write the parsed bits
FromPorcelain(e) ==
    /\ porcelain.status = "ok"
    /\ blk2.status = "none"
    /\ e \in BlockEditsFor(blk.form, porcelain.type, Len(buf))
    /\ LET p == EditBlockPorcelain(Get(porcelain.val), e)
       IN blk2' = IF BlockPorcelainChecks(p, e) /\ IsSome(ParseInt16(p.bits))
                  THEN [status |-> "ok", form |-> "rebuilt",
                        val |-> Some([block |-> BlockFromPorcelain(p)])]
                  ELSE [status |-> "throw", form |-> "rebuilt", val |-> None]
    /\ edit' = e
    /\ UNCHANGED <<buf, strict, blk, porcelain, res, txp, tx2>>

\* the rebuilt block's toPorcelain()
ToPorcelain2 ==
    /\ HasBlock("blk2")
    /\ res' = [NoResult EXCEPT !.op = "toPorcelain", !.on = "blk2", !.type = "default",
                               !.json = Some(BlockToJSON(TheBlock("blk2"), "default"))]
    /\ blk2' = [blk2 EXCEPT !.val = Some([Get(blk2.val) EXCEPT
                                            !.block = AfterDifficultyRead(TheBlock("blk2"))])]
    /\ UNCHANGED <<buf, strict, blk, porcelain, txp, tx2, edit>>

\* the outcome of block.calculateMerkleRoot()
MerkleRootResult(on, block) ==
    IF CalculateMerkleRootThrows(block)
    THEN [NoResult EXCEPT !.op = "calculateMerkleRoot", !.on = on, !.threw = TRUE]
    ELSE [NoResult EXCEPT !.op = "calculateMerkleRoot", !.on = on,
                          !.root = Some(merkleRoot(CalculateMerkleRootLeaves(block)))]

\* a variant of calculateMerkleRoot that first normalises a missing tx to an
\* empty list on the block
CalculateMerkleRoot_NormalisesTx(on) ==
    /\ HasBlock(on)
    /\ res' = MerkleRootResult(on, TheBlock(on))
    /\ IF on = "blk"
       THEN /\ blk' = [blk EXCEPT !.val = Some([Get(blk.val) EXCEPT !.block.tx =
                            IF IsSome(@) THEN @ ELSE Some(<<>>)])]
            /\ UNCHANGED blk2
       ELSE /\ blk2' = [blk2 EXCEPT !.val = Some([Get(blk2.val) EXCEPT !.block.tx =
                            IF IsSome(@) THEN @ ELSE Some(<<>>)])]
            /\ UNCHANGED blk
    /\ UNCHANGED <<buf, strict, porcelain, txp, tx2, edit>>

\* block.calculateMerkleRoot() on the decoded or the rebuilt block
CalculateMerkleRoot(on) ==
    /\ HasBlock(on)
    /\ res' = MerkleRootResult(on, TheBlock(on))
    /\ UNCHANGED <<buf, strict, blk, porcelain, blk2, txp, tx2, edit>>

\* the changes a caller makes to a transaction porcelain: none, a bindingSig
\* key added or replaced, another txid
TxEdits == {"none", "bindingSig", "txid"}

\* the further changes tried before an encode / decode round trip: a group id
\* no transaction format has (0x12345678) on an overwintered porcelain, and
\* the version set to 1
RoundTripEdits == TxEdits \cup {"versiongroupid", "version"}

EditTransactionPorcelain(p, e) ==
    IF e = "bindingSig" THEN [p EXCEPT !.bindingSig = Some(ToHex(Pattern(SIG_BYTES, 67)))]
    ELSE IF e = "txid" THEN [p EXCEPT !.txid = ToHex(Pattern(32, 68))]
    ELSE IF e = "versiongroupid" /\ p.overwintered
    THEN [p EXCEPT !.versiongroupid = Some(<<1, 2, 3, 4, 5, 6, 7, 8>>)]
    ELSE IF e = "version" THEN [p EXCEPT !.version = <<1, 0, 0, 0>>]
    ELSE p

\* the decoded transaction's toPorcelain(), kept for fromPorcelain
TransactionToPorcelain ==
    /\ blk.status = "ok" /\ blk.form = "transaction"
    /\ porcelain.status = "none"
    /\ txp.status = "none"
    /\ txp' = [status |-> "ok", val |-> Some(TransactionToJSON(Get(blk.val).tx))]
    /\ UNCHANGED <<buf, strict, blk, porcelain, blk2, res, tx2, edit>>

\* ZcashTransaction.fromPorcelain(p) on the porcelain with the caller's change
TransactionFromPorcelainCall(e) ==
    /\ txp.status = "ok"
    /\ tx2.status = "none"
    /\ res.op # "js.fromPorcelain"      \* a run rebuilds the transaction or its JoinSplits
    /\ LET p == EditTransactionPorcelain(Get(txp.val), e)
       IN tx2' = IF TransactionFromPorcelainAccepts(p)
                 THEN [status |-> "ok", form |-> "transaction",
                       val |-> Some([tx |-> TransactionFromPorcelain(p)])]
                 ELSE [status |-> "throw", form |-> "transaction", val |-> None]
    /\ edit' = e
    /\ UNCHANGED <<buf, strict, blk, porcelain, blk2, res, txp>>

\* the rebuilt transaction's encode()
Transaction2Encode ==
    /\ tx2.status = "ok"
    /\ res' = IF TransactionEncodes(Get(tx2.val).tx)
              THEN [NoResult EXCEPT !.op = "tx.encode", !.on = "tx2",
                                    !.bytes = Some(EncodeTransaction(Get(tx2.val).tx))]
              ELSE [NoResult EXCEPT !.op = "tx.encode", !.on = "tx2", !.threw = TRUE]
    /\ UNCHANGED <<buf, strict, blk, porcelain, blk2, txp, tx2, edit>>

\* the rebuilt transaction's toPorcelain()
Transaction2ToPorcelain ==
    /\ tx2.status = "ok"
    /\ res' = [NoResult EXCEPT !.op = "tx.toPorcelain", !.on = "tx2",
                               !.json = Some(TransactionToJSON(Get(tx2.val).tx))]
    /\ UNCHANGED <<buf, strict, blk, porcelain, blk2, txp, tx2, edit>>

\* the arrays of a JoinSplit porcelain and the changes a caller makes to one
\* of them: no element, one, three, the second element two characters short,
\* a character that is not a hex digit in the first
JoinSplitArrays == {"nullifiers", "commitments", "macs", "ciphertexts"}
ArrayChanges == {"none", "empty", "one", "three", "short", "nonhex"}

EditArray(a, change) ==
    CASE change = "empty" -> <<>>
      [] change = "one" -> <<a[1]>>
      [] change = "three" -> a \o <<a[1]>>
      [] change = "short" -> [a EXCEPT ![2] = Shortened(@)]
      [] change = "nonhex" -> [a EXCEPT ![1][1] = 16]
      [] OTHER -> a

EditJoinSplitPorcelain(p, field, change) ==
    CASE field = "nullifiers" -> [p EXCEPT !.nullifiers = EditArray(@, change)]
      [] field = "commitments" -> [p EXCEPT !.commitments = EditArray(@, change)]
      [] field = "macs" -> [p EXCEPT !.macs = EditArray(@, change)]
      [] OTHER -> [p EXCEPT !.ciphertexts = EditArray(@, change)]

\* ZcashJoinSplitDescription.fromPorcelain on the i-th JoinSplit of the
\* transaction porcelain, with the caller's change
JoinSplitFromPorcelainCall(i, field, change) ==
    /\ txp.status = "ok"
    /\ tx2.status = "none"
    /\ i \in 1..Len(Get(txp.val).vjoinsplit)
    /\ \E q \in {EditJoinSplitPorcelain(Get(txp.val).vjoinsplit[i], field, change)} :
          res' = IF JoinSplitFromPorcelainAccepts(q)
                 THEN [NoResult EXCEPT !.op = "js.fromPorcelain", !.on = field,
                                       !.type = change, !.index = i,
                                       !.obj = Some(JoinSplitFromPorcelain(q))]
                 ELSE [NoResult EXCEPT !.op = "js.fromPorcelain", !.on = field,
                                       !.type = change, !.index = i, !.threw = TRUE]
    /\ UNCHANGED <<buf, strict, blk, porcelain, blk2, txp, tx2, edit>>

\* transaction.isCoinbase() on the transaction Transaction.decode returned
IsCoinbaseCall ==
    /\ blk.status = "ok" /\ blk.form = "transaction"
    /\ res' = [NoResult EXCEPT !.op = "tx.isCoinbase", !.on = "blk", !.index = 1,
                               !.obj = Some(isCoinbase(Get(blk.val).tx))]
    /\ UNCHANGED <<buf, strict, blk, porcelain, blk2, txp, tx2, edit>>

Next ==
    \/ DecodeBlock
    \/ DecodeHeaderOnly
    \/ TransactionDecode
    \/ \E on \in {"blk", "blk2"} : Encode(on)
    \/ \E i \in 1..MaxTx : TransactionEncode(i)
    \/ \E type \in Types : ToPorcelain(type)
    \/ \E e \in BlockEdits : FromPorcelain(e)
    \/ ToPorcelain2
    \/ \E on \in {"blk", "blk2"} : CalculateMerkleRoot(on)
    \/ TransactionToPorcelain
    \/ \E e \in TxEdits : TransactionFromPorcelainCall(e)
    \/ Transaction2Encode
    \/ Transaction2ToPorcelain
    \/ IsCoinbaseCall
    \/ \E field \in JoinSplitArrays, change \in ArrayChanges :
           JoinSplitFromPorcelainCall(1, field, change)

Spec == Init /\ [][Next]_vars

\* The transaction header as numbers. 1 << 31 is the 32-bit integer -2^31, and
\* for a version of 31 bits version | (1 << 31) is their sum
OverwinterFlag == -2147483647 - 1

\* Buffer.writeInt32LE and Buffer.writeUInt32LE: the four little-endian bytes
\* of the value modulo 2^32 (two's complement for a negative value)
WriteInt32LE(v) == [i \in 1..4 |-> (v \div 256 ^ (i - 1)) % 256]
WriteUInt32LE(v) == [i \in 1..4 |-> (v \div 256 ^ (i - 1)) % 256]

\* a variant of the header write that leaves the flag out
HeaderBytes_NoFlag(overwintered, version) == WriteUInt32LE(version)

\* the four header bytes _customEncodeVersionAndGroup writes
HeaderBytes(overwintered, version) ==
    IF overwintered THEN WriteInt32LE(version + OverwinterFlag) ELSE WriteUInt32LE(version)

\* readUInt32LE: the unsigned value, held as bit 31 and the low 31 bits
ReadUInt32LE(b) ==
    [bit31 |-> b[4] \div 128,
     low |-> b[1] + 256 * b[2] + 65536 * b[3] + 16777216 * (b[4] % 128)]

\* Boolean(txheader >> 31) and txheader & 0x7FFFFFFF: the shift works on the
\* value as a signed 32-bit integer and gives -1 or 0
HeaderPair(b) ==
    [overwintered |-> (IF ReadUInt32LE(b).bit31 = 1 THEN -1 ELSE 0) # 0,
     version |-> ReadUInt32LE(b).low]

\* the versions the header is written for: the powers of two below 2^31, their
\* predecessors, 2^31 - 1 and two values with four different bytes
HeaderVersions ==
    {2 ^ k : k \in 0..30} \cup {2 ^ k - 1 : k \in 0..30}
    \cup {2147483647, 16909060, 2130706433, 3, 4}

\* a transaction of the given flag and version is at hand, nothing written yet
HeaderInit ==
    /\ buf = <<>>
    /\ strict = FALSE
    /\ blk = Unset
    /\ porcelain = [status |-> "none", type |-> "none", val |-> None]
    /\ blk2 = Unset
    /\ res = NoResult
    /\ txp = NoPorcelain
    /\ \E overwintered \in BOOLEAN, version \in HeaderVersions :
          tx2 = [status |-> "given", form |-> "header",
                 val |-> Some([overwintered |-> overwintered, version |-> version])]
    /\ edit = "none"

\* the encoder writes the header
WriteHeader ==
    /\ buf = <<>>
    /\ buf' = HeaderBytes(Get(tx2.val).overwintered, Get(tx2.val).version)
    /\ UNCHANGED <<strict, blk, porcelain, blk2, res, txp, tx2, edit>>

\* the decoder reads the header that was written
ReadHeader ==
    /\ Len(buf) = 4
    /\ res.op = "none"
    /\ res' = [NoResult EXCEPT !.op = "header.read", !.obj = Some(HeaderPair(buf))]
    /\ UNCHANGED <<buf, strict, blk, porcelain, blk2, txp, tx2, edit>>

HeaderNext == WriteHeader \/ ReadHeader

HeaderSpec == HeaderInit /\ [][HeaderNext]_vars

\* Reads of block.difficulty and assignments to block.bits on one decoded
\* header. The bits values: the genesis bits, exponent bytes 0, 1, 2 and 3, an
\* exponent byte of 4 and a mantissa of zero
DifficultyBits ==
    {GENESIS_BITS, <<5, 0, 0, 0>>, <<0, 1, 0, 1>>, <<0, 128, 0, 2>>,
     <<255, 255, 127, 3>>, <<52, 18, 0, 4>>, <<0, 0, 0, 32>>}

\* the header with the given bits field
WireHeaderWithBits(bits) ==
    SubSeq(WireHeader("normal"), 1, 104) \o bits
    \o SubSeq(WireHeader("normal"), 109, Len(WireHeader("normal")))

DifficultyInit ==
    /\ buf \in {WireHeaderWithBits(bits) : bits \in DifficultyBits}
    /\ strict = FALSE
    /\ blk = Unset
    /\ porcelain = [status |-> "none", type |-> "none", val |-> None]
    /\ blk2 = Unset
    /\ res = NoResult
    /\ txp = NoPorcelain
    /\ tx2 = Unset
    /\ edit = "none"

\* a read of block.difficulty: the getter computes the value when its
\* closure variable is null and returns the variable otherwise; res keeps the
\* value returned, the bits the block held, and which of the two it was
ReadDifficulty ==
    /\ HasBlock("blk")
    /\ res' = [NoResult EXCEPT
                  !.op = "difficulty", !.on = "blk",
                  !.type = IF IsSome(TheBlock("blk").difficulty) THEN "kept" ELSE "computed",
                  !.bytes = Some(TheBlock("blk").bits),
                  !.obj = Some(DifficultyRead(TheBlock("blk")))]
    /\ blk' = [blk EXCEPT !.val = Some([Get(blk.val) EXCEPT
                                          !.block = AfterDifficultyRead(TheBlock("blk"))])]
    /\ UNCHANGED <<buf, strict, porcelain, blk2, txp, tx2, edit>>

\* block.bits = bits
AssignBits(bits) ==
    /\ HasBlock("blk")
    /\ bits # TheBlock("blk").bits
    /\ blk' = [blk EXCEPT !.val = Some([Get(blk.val) EXCEPT !.block.bits = bits])]
    /\ UNCHANGED <<buf, strict, porcelain, blk2, res, txp, tx2, edit>>

DifficultyNext ==
    \/ DecodeHeaderOnly
    \/ ReadDifficulty
    \/ \E bits \in DifficultyBits : AssignBits(bits)

DifficultySpec == DifficultyInit /\ [][DifficultyNext]_vars

\* the decodes of transactions that carry JoinSplits: legacy v2 and Overwinter
\* v3 with a PHGR proof, Sapling v4 with a Groth proof, alone and in blocks in
\* every order of two and in runs of MaxTx
ProofKinds == <<3, 7, 10>>

ProofInputs ==
    {WireBlock("normal", <<ProofKinds[a], ProofKinds[b]>>, 0) : a, b \in 1..3}
    \cup {WireBlock("normal", [i \in 1..MaxTx |-> ProofKinds[((i + r) % 3) + 1]], 0) :
             r \in 0..2}
    \cup {WireTx(ProofKinds[a]) : a \in 1..3}

ProofInit ==
    /\ buf \in ProofInputs
    /\ strict \in BOOLEAN
    /\ blk = Unset
    /\ porcelain = [status |-> "none", type |-> "none", val |-> None]
    /\ blk2 = Unset
    /\ res = NoResult
    /\ txp = NoPorcelain
    /\ tx2 = Unset
    /\ edit = "none"

ProofNext ==
    \/ DecodeBlock
    \/ TransactionDecode
    \/ Encode("blk")
    \/ \E i \in 1..MaxTx : TransactionEncode(i)

ProofSpec == ProofInit /\ [][ProofNext]_vars

\* The calls that only read, around repeated decodes: a second decode of the
\* same input with the same call, and a decode of another transaction that
\* may run at any point. The inputs are two blocks, a bare header and four
\* bare transactions, one of them with a JoinSplit.
FrameInputs ==
    {WireBlock("normal", <<1, 2>>, 0), WireBlock("genesis", <<6>>, 0),
     WireHeader("normal"), WireTx(1), WireTx(3), WireTx(6),
     WireCoinbaseTx(<<255, 255, 255, 255>>, <<81>>)}

OtherInputs == {WireTx(2), WireTwoInputTx}

FrameInit ==
    /\ buf \in FrameInputs
    /\ strict \in BOOLEAN
    /\ blk = Unset
    /\ porcelain = [status |-> "none", type |-> "none", val |-> None]
    /\ blk2 = Unset
    /\ res = NoResult
    /\ txp = NoPorcelain
    /\ tx2 = Unset
    /\ edit = "none"

\* the decode call that produced the first object, made again on the same
\* input; every call starts from its own cursor and scratchpad
DecodeAgain ==
    /\ blk.status = "ok"
    /\ blk2.status = "none"
    /\ blk2' = IF blk.form = "block"
               THEN Decoded("block", decodeType(DecodeBlockRecord, buf, strict))
               ELSE IF blk.form = "header"
               THEN Decoded("header", decodeType(DecodeHeaderOnlyRecord, buf, strict))
               ELSE Decoded("transaction", decodeType(DecodeTransaction, buf, strict))
    /\ UNCHANGED <<buf, strict, blk, porcelain, res, txp, tx2, edit>>

\* ZcashTransaction.decode(b, strict) on other bytes
DecodeOther(b) ==
    /\ tx2.status = "none"
    /\ blk2.status = "none"
    /\ tx2' = Decoded("transaction", decodeType(DecodeTransaction, b, strict))
    /\ UNCHANGED <<buf, strict, blk, porcelain, blk2, res, txp, edit>>

FrameNext ==
    \/ DecodeBlock
    \/ DecodeHeaderOnly
    \/ TransactionDecode
    \/ DecodeAgain
    \/ \E b \in OtherInputs : DecodeOther(b)
    \/ \E on \in {"blk", "blk2"} : Encode(on)
    \/ \E i \in 1..MaxTx : TransactionEncode(i)
    \/ \E type \in Types : ToPorcelain(type)
    \/ \E e \in BlockEdits : FromPorcelain(e)
    \/ ToPorcelain2
    \/ \E on \in {"blk", "blk2"} : CalculateMerkleRoot(on)
    \/ TransactionToPorcelain
    \/ \E e \in TxEdits : TransactionFromPorcelainCall(e)
    \/ Transaction2Encode
    \/ Transaction2ToPorcelain
    \/ IsCoinbaseCall

FrameSpec == FrameInit /\ [][FrameNext]_vars

\* The round trip of a rebuilt transaction: a transaction is decoded, its
\* porcelain taken and changed, the transaction rebuilt from it, encoded, and
\* the bytes decoded again with strict length usage (the result is kept in
\* blk2). The inputs are legacy, Overwinter and Sapling transactions, with
\* and without JoinSplits and shielded data.
RoundTripInputs ==
    {WireTx(k) : k \in {1, 3, 4, 5, 6}} \cup {WireShieldedTx(1, 0), WireTwoInputTx}

RoundTripInit ==
    /\ buf \in RoundTripInputs
    /\ strict \in BOOLEAN
    /\ blk = Unset
    /\ porcelain = [status |-> "none", type |-> "none", val |-> None]
    /\ blk2 = Unset
    /\ res = NoResult
    /\ txp = NoPorcelain
    /\ tx2 = Unset
    /\ edit = "none"

\* ZcashTransaction.decode(bytes, true) on the bytes the rebuilt transaction's
\* encode() returned
Transaction2Decode ==
    /\ tx2.status = "ok"
    /\ res.op = "tx.encode" /\ res.on = "tx2" /\ ~res.threw
    /\ blk2.status = "none"
    /\ blk2' = Decoded("transaction", decodeType(DecodeTransaction, Get(res.bytes), TRUE))
    /\ UNCHANGED <<buf, strict, blk, porcelain, res, txp, tx2, edit>>

RoundTripNext ==
    \/ TransactionDecode
    \/ TransactionToPorcelain
    \/ \E e \in RoundTripEdits : TransactionFromPorcelainCall(e)
    \/ Transaction2Encode
    \/ Transaction2ToPorcelain
    \/ Transaction2Decode

RoundTripSpec == RoundTripInit /\ [][RoundTripNext]_vars

---------------------------------------------------------------------------
(* Properties *)

\* the state a decode call leaves, before any other call
JustDecoded == blk.status = "ok" /\ porcelain.status = "none" /\ res.op = "none"

\* a full block was decoded and the decode consumed the whole input, which is
\* when decode(buf, true) accepts
WholeBlock ==
    /\ blk.status = "ok" /\ blk.form = "block"
    /\ Get(TheBlock("blk").size) = Len(buf)

\* the first n bytes of b, all of b when it is shorter
Prefix(b, n) == SubSeq(b, 1, IF Len(b) < n THEN Len(b) ELSE n)

\* C1: for every input that a strict decode accepts, the decoded block's
\* encode() returns the input, byte for byte
C1_BlockRoundTrip ==
    (WholeBlock /\ res.op = "encode" /\ res.on = "blk")
        => (~res.threw /\ Get(res.bytes) = buf)

\* the start and end positions of the decoded transactions
TxStarts ==
    IF blk.form = "block" THEN Get(blk.val).txStart
    ELSE <<Get(blk.val).state.transactionStartPos>>
TxEnds ==
    IF blk.form = "block" THEN Get(blk.val).txEnd ELSE <<Get(blk.val).endPos>>

\* C2: every decoded transaction's rawBytes is the input span from the position
\* its VersionAndGroup hook marked to the cursor after its last section, its
\* txid is the double hash of rawBytes, and the spans of consecutive
\* transactions of a block follow one another without overlap, from the byte
\* after the count to the end of the block
C2_RawBytesSpan ==
    (JustDecoded /\ blk.form \in {"block", "transaction"}) =>
        LET txs == DecodedTransactions
        IN /\ Len(TxStarts) = Len(txs) /\ Len(TxEnds) = Len(txs)
           /\ \A i \in 1..Len(txs) :
                /\ TxStarts[i] < TxEnds[i]
                /\ txs[i].rawBytes = SubSeq(buf, TxStarts[i] + 1, TxEnds[i])
                /\ txs[i].txid = dblSha2256(SubSeq(buf, TxStarts[i] + 1, TxEnds[i]))
                /\ (i > 1 => TxStarts[i] = TxEnds[i - 1])
           /\ (blk.form = "transaction" => TxStarts[1] = 0)
           /\ (blk.form = "block" /\ Len(txs) > 0) =>
                /\ TxStarts[1] = Get(blk.val).hashEnd + 1
                /\ TxEnds[Len(txs)] = Get(TheBlock("blk").size)

\* a block of at least two transactions was decoded
C2_Witness ==
    JustDecoded /\ blk.form = "block" /\ Len(DecodedTransactions) >= 2

\* C3: every decoded transaction's encode() equals its rawBytes
C3_TransactionEncode ==
    (res.op = "tx.encode")
        => (~res.threw /\ Get(res.bytes) = DecodedTransactions[res.index].rawBytes)

\* C4: the span hashed for the block hash is HEADER_BYTES long and the hash is
\* the double hash of the first HEADER_BYTES of the input, whatever the length
\* of the solution
C4_HashSpan ==
    (JustDecoded /\ blk.form \in {"block", "header"}) =>
        /\ Get(blk.val).hashEnd - Get(blk.val).blockStartPos = HEADER_BYTES
        /\ Get(TheBlock("blk").hash) = dblSha2256(Prefix(buf, HEADER_BYTES))

\* the number of nodes of layer h of the tree over n leaves
LayerWidth(n, h) == (n + 2 ^ h - 1) \div (2 ^ h)

\* node k (from 0) of layer h of the tree: a leaf at layer 0, else the double
\* hash of its two children, the left one doubled when it is the last of an
\* odd layer
RECURSIVE TreeNode(_, _, _)
TreeNode(leaves, h, k) ==
    IF h = 0 THEN leaves[k + 1]
    ELSE dblSha2256(TreeNode(leaves, h - 1, 2 * k)
                    \o TreeNode(leaves, h - 1,
                                IF 2 * k + 1 < LayerWidth(Len(leaves), h - 1)
                                THEN 2 * k + 1 ELSE 2 * k))

\* the layer that has one node
TreeHeight(n) == CHOOSE h \in 0..n : LayerWidth(n, h) = 1 /\ \A g \in 0..(h - 1) : LayerWidth(n, g) > 1

\* C5: calculateMerkleRoot() of a block with transactions is the root of the
\* tree over the txids in tx order, the last node of an odd layer paired with
\* itself; one transaction gives its txid, two give the hash of the first
\* followed by the second
C5_MerkleRoot ==
    (res.op = "calculateMerkleRoot" /\ res.on = "blk" /\ ~res.threw) =>
        LET txs == Get(TheBlock("blk").tx)
            ids == [i \in 1..Len(txs) |-> txs[i].txid]
        IN /\ Get(res.root) = TreeNode(ids, TreeHeight(Len(ids)), 0)
           /\ (Len(ids) = 1 => Get(res.root) = ids[1])
           /\ (Len(ids) = 2 => Get(res.root) = dblSha2256(ids[1] \o ids[2]))

\* the root of a block of three or more transactions was computed
C5_Witness ==
    /\ res.op = "calculateMerkleRoot" /\ res.on = "blk" /\ ~res.threw
    /\ Len(Get(TheBlock("blk").tx)) >= 3

\* tx is absent from the block, or empty
NoTransactions(block) == ~IsSome(block.tx) \/ Len(Get(block.tx)) = 0

\* C6: calculateMerkleRoot() on a block whose tx is absent or empty throws,
\* returns no root and changes neither the block nor anything else
C6_MerkleRootFails ==
    [][\A on \in {"blk", "blk2"} :
          (HasBlock(on) /\ NoTransactions(TheBlock(on)) /\ CalculateMerkleRoot(on))
              => /\ res'.threw
                 /\ ~IsSome(res'.root)
                 /\ UNCHANGED <<buf, strict, blk, porcelain, blk2>>]_vars

\* calculateMerkleRoot() threw on a block rebuilt from the porcelain of a
\* block that has transactions
C6_Witness ==
    /\ res.op = "calculateMerkleRoot" /\ res.on = "blk2" /\ res.threw
    /\ blk.form = "block" /\ Len(DecodedTransactions) >= 1

\* C7: the block rebuilt from the default porcelain of a decoded block with
\* transactions encodes to the input
C7_PorcelainRoundTrip ==
    (WholeBlock /\ Len(DecodedTransactions) >= 1 /\ porcelain.type = "default"
       /\ res.op = "encode" /\ res.on = "blk2")
        => (~res.threw /\ Get(res.bytes) = buf)

\* a header-only decode that consumed the whole input
WholeHeader ==
    /\ blk.status = "ok" /\ blk.form = "header"
    /\ Get(blk.val).hashEnd = Len(buf)

\* C8: the header-only decode of an input of HEADER_BYTES bytes has no tx and
\* no size, and its encode() returns the input
C8_HeaderRoundTrip ==
    (blk.status = "ok" /\ blk.form = "header" /\ Len(buf) = HEADER_BYTES) =>
        /\ ~IsSome(TheBlock("blk").tx)
        /\ ~IsSome(TheBlock("blk").size)
        /\ (res.op = "encode" /\ res.on = "blk")
              => (~res.threw /\ Get(res.bytes) = buf)

\* C9: the block rebuilt from the porcelain of a header-only decode has the
\* same porcelain and encodes to the header
C9_HeaderPorcelainRoundTrip ==
    (WholeHeader /\ porcelain.status = "ok" /\ porcelain.type = "default") =>
        /\ blk2.status # "throw"
        /\ (res.op = "toPorcelain" /\ res.on = "blk2")
              => Get(res.json) = Get(porcelain.val)
        /\ (res.op = "encode" /\ res.on = "blk2")
              => (~res.threw /\ Get(res.bytes) = buf)

\* the two hex digits of byte j of a 32-byte hash h sit at the mirrored place
\* of the 64-digit string s
IsReversedHex(s, h) ==
    /\ Len(s) = 64
    /\ \A j \in 1..32 :
         /\ s[2 * (32 - j) + 1] = h[j] \div 16
         /\ s[2 * (32 - j) + 2] = h[j] % 16

\* C10: the tx of the 'min' porcelain of a decoded block has the length and
\* order of the block's tx, and entry i is the byte-reversed hex of txid i
C10_MinTransactions ==
    (blk.status = "ok" /\ blk.form = "block"
       /\ porcelain.status = "ok" /\ porcelain.type = "min") =>
        LET txs == DecodedTransactions
            ids == Get(Get(porcelain.val).tx)
        IN /\ Len(ids) = Len(txs)
           /\ \A i \in 1..Len(txs) : IsReversedHex(ids[i], txs[i].txid)

\* the 'min' porcelain of a block of at least two transactions was taken
C10_Witness ==
    /\ blk.status = "ok" /\ blk.form = "block"
    /\ porcelain.status = "ok" /\ porcelain.type = "min"
    /\ Len(DecodedTransactions) >= 2

\* the porcelain the rebuilt block was built from had tx
PorcelainHadTx == porcelain.status = "ok" /\ IsSome(Get(porcelain.val).tx)

\* C11: a porcelain of a block has tx and size exactly when the mode is not
\* 'header' and the block holds transactions; a block rebuilt by fromPorcelain
\* from a porcelain that had tx holds them, so its default porcelain has tx and
\* size
C11_PorcelainKeys ==
    /\ (HasBlock("blk") /\ porcelain.status = "ok") =>
          LET p == Get(porcelain.val)
              holds == IsSome(TheBlock("blk").tx)
          IN /\ IsSome(p.tx) <=> (porcelain.type # "header" /\ holds)
             /\ IsSome(p.size) <=> (porcelain.type # "header" /\ holds)
    /\ (res.op = "toPorcelain" /\ res.on = "blk2" /\ PorcelainHadTx) =>
          /\ IsSome(Get(res.json).tx)
          /\ IsSome(Get(res.json).size)

\* the record of the decoded form read at the start of the input, whatever follows it
RecordRead ==
    IF blk.form = "block" THEN DecodeBlockRecord(buf, 0) ELSE DecodeTransaction(buf, 0)

\* the strict decode of the first n bytes of the input
StrictDecodeOfPrefix(n) ==
    IF blk.form = "block"
    THEN Decoded("block", decodeType(DecodeBlockRecord, Prefix(buf, n), TRUE))
    ELSE Decoded("transaction", decodeType(DecodeTransaction, Prefix(buf, n), TRUE))

\* C12: when input bytes remain after the block or transaction record, the
\* strict decode throws and returns nothing, and the decode without strict
\* returns what the strict decode returns on the input without those bytes
C12_StrictLength ==
    (blk.status # "none" /\ blk.form \in {"block", "transaction"}
       /\ porcelain.status = "none") =>
        LET r == RecordRead
        IN (r.ok /\ r.pos < Len(buf)) =>
              IF strict THEN blk.status = "throw" /\ ~IsSome(blk.val)
              ELSE blk.status = "ok" /\ blk = StrictDecodeOfPrefix(r.pos)

\* a block followed by more input was decoded without strict
C12_Witness ==
    /\ ~strict /\ blk.status = "ok" /\ blk.form = "block" /\ porcelain.status = "none"
    /\ Get(TheBlock("blk").size) < Len(buf)

\* a transaction header starts at pos whose overwintered bit is set and whose
\* (versiongroupid, version) pair is neither (0x03C48270, 3) nor (0x892F2085, 4)
UnknownShapeAt(b, pos) ==
    /\ pos + 8 <= Len(b)
    /\ b[pos + 4] >= 128
    /\ LET version == <<b[pos + 1], b[pos + 2], b[pos + 3], b[pos + 4] % 128>>
           group == SubSeq(b, pos + 5, pos + 8)
       IN /\ ~(group = <<112, 130, 196, 3>> /\ version = <<3, 0, 0, 0>>)
          /\ ~(group = <<133, 32, 47, 137>> /\ version = <<4, 0, 0, 0>>)

\* the read of the k - 1 transactions that precede transaction k of the input block
TransactionsBefore(k) ==
    LET h == DecodeHeaderFields(buf, 0)
        n == ReadCompactSize(buf, h.pos)
    IN IF h.ok /\ n.ok /\ k <= n.val
       THEN ReadItems(DecodeTransaction, buf, n.pos, k - 1, <<>>)
       ELSE Fail(0)

EncodedTransaction ==
    IF res.on = "tx2" THEN Get(tx2.val).tx ELSE DecodedTransactions[res.index]

\* the condition under which _customDecodeBindingSig reads the signature
DecodeReadsBindingSig(tx) ==
    /\ isSaplingV4(tx)
    /\ IsSome(tx.vShieldedSpend) /\ IsSome(tx.vShieldedOutput)
    /\ ~(Len(Get(tx.vShieldedSpend)) = 0 /\ Len(Get(tx.vShieldedOutput)) = 0)

\* the encoding up to the bindingSig hook
EncodedBeforeBindingSig(tx) ==
    CustomEncodeVersionAndGroup(tx) \o WriteVector(EncodeTxIn, tx.vin)
    \o WriteVector(EncodeTxOut, tx.vout) \o tx.locktime
    \o CustomEncodeExpiryHeight(tx) \o CustomEncodeBalanceAndShielded(tx)
    \o CustomEncodeJoinSplit(tx)

\* C14: whenever encode() of a transaction, decoded or built by
\* fromPorcelain, returns, its bytes end with the 64-byte bindingSig segment
\* if and only if the transaction is Sapling v4 with a non-empty vShieldedSpend
\* or vShieldedOutput, the condition under which the decode hook reads it
C14_BindingSigEmitted ==
    (res.op = "tx.encode" /\ ~res.threw) =>
        Len(Get(res.bytes)) = Len(EncodedBeforeBindingSig(EncodedTransaction))
                              + (IF DecodeReadsBindingSig(EncodedTransaction)
                                 THEN SIG_BYTES ELSE 0)

\* the transaction Transaction.decode returned
DecodedTransaction1 == Get(blk.val).tx

\* C15: for every transaction t accepted by Transaction.decode,
\* t2 = Transaction.fromPorcelain(t.toPorcelain()) is returned, t2.toPorcelain()
\* equals t.toPorcelain() and t2.encode() equals t.encode(); coinbase-shaped
\* inputs with any prevout n and any scriptSig, the empty one included, and
\* JoinSplits with a PHGR proof are among them
C15_TransactionPorcelainRoundTrip ==
    (blk.status = "ok" /\ blk.form = "transaction" /\ txp.status = "ok"
       /\ edit = "none" /\ tx2.status # "none") =>
        /\ tx2.status = "ok"
        /\ (res.op = "tx.toPorcelain" /\ res.on = "tx2") => Get(res.json) = Get(txp.val)
        /\ (res.op = "tx.encode" /\ res.on = "tx2" /\ TransactionEncodes(DecodedTransaction1)) =>
              /\ ~res.threw
              /\ Get(res.bytes) = EncodeTransaction(DecodedTransaction1)

\* the porcelain the last Transaction.fromPorcelain call was given
GivenTransactionPorcelain == EditTransactionPorcelain(Get(txp.val), edit)

\* C16: the transaction t that Transaction.fromPorcelain returns for an
\* accepted porcelain p has t.txid = dblSha2256(t.encode()) and t.rawBytes =
\* the hex of t.encode(); neither depends on p.txid: the same porcelain under
\* another txid gives the same transaction
C16_TxidFromEncode ==
    tx2.status = "ok" =>
        LET t == Get(tx2.val).tx
        IN /\ TransactionEncodes(t)
           /\ t.txid = dblSha2256(EncodeTransaction(t))
           /\ t.rawBytes = ToHex(EncodeTransaction(t))
           /\ t = TransactionFromPorcelain(
                     [GivenTransactionPorcelain EXCEPT !.txid = ToHex(Pattern(32, 69))])
           /\ (res.op = "tx.encode" /\ res.on = "tx2") =>
                 /\ ~res.threw
                 /\ t.txid = dblSha2256(Get(res.bytes))
                 /\ t.rawBytes = ToHex(Get(res.bytes))

\* a transaction rebuilt from a porcelain whose txid the caller replaced, then
\* encoded
C16_Witness ==
    /\ tx2.status = "ok" /\ edit = "txid"
    /\ GivenTransactionPorcelain.txid # toHashHex(Get(tx2.val).tx.txid)
    /\ res.op = "tx.encode" /\ res.on = "tx2" /\ ~res.threw

\* C19: Block.fromPorcelain throws and returns no block whenever a required
\* header field has the wrong type or hex length: version or time not a number;
\* merkleroot, finalsaplingroot or nonce not a 64-character hex string; bits not
\* a hex string (a string that is not hex, or a value that is not a string);
\* solution not a 2688-character hex string; a present previousblockhash not a
\* 64-character hex string
C19_BlockPorcelainValidation ==
    (blk2.status # "none" /\ edit \in BlockEdits \ {"none", "hash"}) =>
        blk2.status = "throw" /\ ~IsSome(blk2.val)

\* the porcelain the last Block.fromPorcelain call was given
GivenBlockPorcelain == EditBlockPorcelain(Get(porcelain.val), edit)

\* C17: the block that Block.fromPorcelain returns for an accepted porcelain p
\* encodes to at least HEADER_BYTES = 1487 bytes and its hash is the double
\* hash of the first 1487 bytes of that encoding; the hash does not depend on
\* p.hash: the same porcelain under another hash gives the same block
C17_HashFromEncode ==
    blk2.status = "ok" =>
        LET b == TheBlock("blk2")
        IN /\ BlockEncodes(b)
           /\ Len(EncodeBlock(b)) >= HEADER_BYTES
           /\ Get(b.hash) = dblSha2256(SubSeq(EncodeBlock(b), 1, HEADER_BYTES))
           /\ [b EXCEPT !.difficulty = None] =
                 BlockFromPorcelain([GivenBlockPorcelain EXCEPT !.hash = ToHex(Pattern(32, 71))])
           /\ (res.op = "encode" /\ res.on = "blk2") =>
                 /\ ~res.threw
                 /\ Len(Get(res.bytes)) >= HEADER_BYTES
                 /\ Get(b.hash) = dblSha2256(SubSeq(Get(res.bytes), 1, HEADER_BYTES))

\* a block rebuilt from a porcelain whose hash the caller replaced, then encoded
C17_Witness ==
    /\ blk2.status = "ok" /\ edit = "hash"
    /\ GivenBlockPorcelain.hash # toHashHex(Get(TheBlock("blk2").hash))
    /\ res.op = "encode" /\ res.on = "blk2" /\ ~res.threw

\* exactly one input, whose prevout hash is 32 zero bytes
CoinbaseShaped(tx) ==
    /\ Len(tx.vin) = 1
    /\ Len(tx.vin[1].prevout.hash) = 32
    /\ \A j \in 1..32 : tx.vin[1].prevout.hash[j] = 0

\* a vin entry of the form {coinbase, sequence}
CoinbaseForm(in) ==
    IsSome(in.coinbase) /\ ~IsSome(in.txid) /\ ~IsSome(in.vout) /\ ~IsSome(in.scriptSig)

\* a vin entry of the form {txid, vout, scriptSig: {asm, hex}, sequence}
OutpointForm(in) ==
    ~IsSome(in.coinbase) /\ IsSome(in.txid) /\ IsSome(in.vout) /\ IsSome(in.scriptSig)

\* the porcelain p renders every input of tx in the form its shape asks for
VinRendered(tx, p) ==
    /\ Len(p.vin) = Len(tx.vin)
    /\ \A j \in 1..Len(p.vin) :
          IF CoinbaseShaped(tx) THEN CoinbaseForm(p.vin[j]) ELSE OutpointForm(p.vin[j])

\* C18: isCoinbase() returns true exactly for a transaction with exactly one
\* input whose prevout hash is the 32-byte all-zero value; toPorcelain renders
\* every vin entry of such a transaction as {coinbase, sequence} and every vin
\* entry of any other transaction as {txid, vout, scriptSig: {asm, hex}, sequence}
C18_Coinbase ==
    /\ res.op = "tx.isCoinbase" =>
          (Get(res.obj) <=> CoinbaseShaped(DecodedTransactions[res.index]))
    /\ txp.status = "ok" => VinRendered(DecodedTransaction1, Get(txp.val))
    /\ (HasBlock("blk") /\ porcelain.status = "ok" /\ porcelain.type = "default"
          /\ IsSome(Get(porcelain.val).tx)) =>
          \A i \in 1..Len(DecodedTransactions) :
              VinRendered(DecodedTransactions[i], Get(Get(porcelain.val).tx)[i])

\* isCoinbase() returned false for a transaction of two inputs whose first has
\* the null prevout hash, and its porcelain was taken
C18_Witness ==
    /\ res.op = "tx.isCoinbase" /\ ~Get(res.obj)
    /\ Len(DecodedTransactions[res.index].vin) = 2
    /\ DecodedTransactions[res.index].vin[1].prevout.hash = Zeros(32)
    /\ txp.status = "ok"

\* the JoinSplit porcelain the last JoinSplitDescription.fromPorcelain call was given
GivenJoinSplitPorcelain ==
    EditJoinSplitPorcelain(Get(txp.val).vjoinsplit[res.index], res.on, res.type)

\* an array of exactly two hex strings of n characters
TwoHexStrings(a, n) ==
    /\ Len(a) = 2
    /\ \A i \in 1..Len(a) : Len(a[i]) = n /\ \A j \in 1..Len(a[i]) : a[i][j] \in 0..15

\* C20: JoinSplitDescription.fromPorcelain returns only when nullifiers,
\* commitments and macs are arrays of exactly 2 hex strings of 64 characters and
\* ciphertexts an array of exactly 2 hex strings of 1202 characters; a
\* porcelain with 0, 1 or 3 ciphertexts is rejected
C20_JoinSplitArrays ==
    (res.op = "js.fromPorcelain" /\ ~res.threw) =>
        \A q \in {GivenJoinSplitPorcelain} :
            /\ TwoHexStrings(q.nullifiers, 64)
            /\ TwoHexStrings(q.commitments, 64)
            /\ TwoHexStrings(q.macs, 64)
            /\ TwoHexStrings(q.ciphertexts, JS_CIPHERTEXT_BYTES * 2)

\* the shape a transaction's first bytes state: the overwintered bit with
\* version 3 and group id 0x03C48270, or with version 4 and group id 0x892F2085
OverwinterShaped(raw) ==
    Len(raw) >= 8 /\ SubSeq(raw, 1, 8) = <<3, 0, 0, 128, 112, 130, 196, 3>>
SaplingShaped(raw) ==
    Len(raw) >= 8 /\ SubSeq(raw, 1, 8) = <<4, 0, 0, 128, 133, 32, 47, 137>>

\* the low 31 bits of the first four bytes are 2 or more
VersionAtLeast2(raw) ==
    raw[1] >= 2 \/ raw[2] > 0 \/ raw[3] > 0 \/ raw[4] % 128 > 0

\* the lengths of the sections of the bytes raw of transaction tx: the fixed
\* part up to the lock time, expiryheight, the shielded part, the JoinSplit
\* part and the binding signature, each as the shape in raw calls for
FixedPartLen(raw, tx) ==
    (IF raw[4] >= 128 THEN 8 ELSE 4) + Len(WriteVector(EncodeTxIn, tx.vin))
    + Len(WriteVector(EncodeTxOut, tx.vout)) + 4
ExpiryLen(raw) == IF OverwinterShaped(raw) \/ SaplingShaped(raw) THEN 4 ELSE 0
ShieldedLen(raw, tx) ==
    IF SaplingShaped(raw) /\ IsSome(tx.vShieldedSpend) /\ IsSome(tx.vShieldedOutput)
    THEN 8 + Len(WriteVector(EncodeSpendDescription, Get(tx.vShieldedSpend)))
         + Len(WriteVector(EncodeOutputDescription, Get(tx.vShieldedOutput)))
    ELSE 0
JoinSplitLen(raw, tx) ==
    IF VersionAtLeast2(raw)
    THEN Len(WriteVector(EncodeJSDescription, tx.vjoinsplit))
         + (IF Len(tx.vjoinsplit) > 0 THEN UINT256_BYTES + SIG_BYTES ELSE 0)
    ELSE 0

\* the conditional sections of raw are laid out as its shape calls for
SectionsAsShaped(raw, tx) ==
    LET p0 == FixedPartLen(raw, tx)
        e == ExpiryLen(raw)
        s == ShieldedLen(raw, tx)
        j == JoinSplitLen(raw, tx)
    IN /\ Len(raw) = p0 + e + s + j + (IF IsSome(tx.bindingSig) THEN SIG_BYTES ELSE 0)
       /\ SubSeq(raw, p0 - 3, p0) = tx.locktime
       /\ e > 0 => SubSeq(raw, p0 + 1, p0 + 4) = tx.expiryheight
       /\ SaplingShaped(raw) =>
             /\ IsSome(tx.valueBalanceZat) /\ IsSome(tx.vShieldedSpend)
             /\ IsSome(tx.vShieldedOutput)
             /\ SubSeq(raw, p0 + e + 1, p0 + e + 8) = Get(tx.valueBalanceZat)
       /\ (VersionAtLeast2(raw) /\ Len(tx.vjoinsplit) > 0) =>
             /\ IsSome(tx.joinSplitPubKey) /\ IsSome(tx.joinSplitSig)
             /\ SubSeq(raw, p0 + e + s + j - UINT256_BYTES - SIG_BYTES + 1, p0 + e + s + j)
                   = Get(tx.joinSplitPubKey) \o Get(tx.joinSplitSig)

\* what the decode hooks leave for the sections they do not read
AbsentAsShaped(raw, tx) ==
    /\ ExpiryLen(raw) = 0 => tx.expiryheight = Zeros(4)
    /\ ~SaplingShaped(raw) =>
          /\ ~IsSome(tx.valueBalanceZat) /\ ~IsSome(tx.vShieldedSpend)
          /\ ~IsSome(tx.vShieldedOutput)
    /\ ~VersionAtLeast2(raw) => tx.vjoinsplit = <<>>
    /\ Len(tx.vjoinsplit) = 0 => ~IsSome(tx.joinSplitPubKey) /\ ~IsSome(tx.joinSplitSig)
    /\ raw[4] < 128 =>
          /\ ExpiryLen(raw) = 0 /\ ShieldedLen(raw, tx) = 0
          /\ ~tx.overwintered /\ tx.versiongroupid = Zeros(4)

\* C21: on decode and on encode alike, expiryheight is present if and only if
\* the shape is Overwinter v3 or Sapling v4, the value balance and the two
\* shielded vectors if and only if Sapling v4 (null otherwise on decode), the
\* JoinSplit vector if and only if version >= 2, the JoinSplit key and
\* signature if and only if that vector is not empty; a transaction that is
\* not overwintered carries neither expiryheight nor shielded sections
C21_SectionPresence ==
    /\ (JustDecoded /\ blk.form \in {"block", "transaction"}) =>
          \A i \in 1..Len(DecodedTransactions) :
              /\ SectionsAsShaped(DecodedTransactions[i].rawBytes, DecodedTransactions[i])
              /\ AbsentAsShaped(DecodedTransactions[i].rawBytes, DecodedTransactions[i])
    /\ (res.op = "tx.encode" /\ ~res.threw) =>
          SectionsAsShaped(Get(res.bytes), EncodedTransaction)

\* the encode() of a decoded Sapling v4 transaction with a JoinSplit returned
C21_Witness ==
    /\ res.op = "tx.encode" /\ ~res.threw /\ res.on = "blk"
    /\ SaplingShaped(Get(res.bytes))
    /\ Len(EncodedTransaction.vjoinsplit) > 0

\* the shielded spend and output counts of the bytes raw of a Sapling v4
\* transaction tx: the compact sizes that follow the value balance
SpendCount(raw, tx) == raw[FixedPartLen(raw, tx) + 4 + 8 + 1]
OutputCount(raw, tx) ==
    raw[FixedPartLen(raw, tx) + 4 + 8
        + Len(WriteVector(EncodeSpendDescription, Get(tx.vShieldedSpend))) + 1]

\* raw is Sapling v4 with a shielded spend or a shielded output
HasShieldedData(raw, tx) ==
    /\ SaplingShaped(raw)
    /\ IsSome(tx.vShieldedSpend)
    /\ SpendCount(raw, tx) > 0 \/ OutputCount(raw, tx) > 0

\* C22: on decode, bindingSig is the 64 bytes that end the transaction if and
\* only if the transaction is Sapling v4 with a shielded spend or a shielded
\* output; otherwise it is null and no byte is consumed for it, as for the
\* Sapling v4 transaction whose shielded vectors are both empty, which decodes
C22_BindingSigRead ==
    /\ (JustDecoded /\ blk.form \in {"block", "transaction"}) =>
          \A i \in 1..Len(DecodedTransactions) :
              LET tx == DecodedTransactions[i]
                  raw == tx.rawBytes
                  before == FixedPartLen(raw, tx) + ExpiryLen(raw)
                            + ShieldedLen(raw, tx) + JoinSplitLen(raw, tx)
              IN IF HasShieldedData(raw, tx)
                 THEN /\ IsSome(tx.bindingSig)
                      /\ Len(raw) = before + SIG_BYTES
                      /\ Get(tx.bindingSig) = SubSeq(raw, before + 1, before + SIG_BYTES)
                 ELSE /\ ~IsSome(tx.bindingSig)
                      /\ Len(raw) = before
    /\ (blk.status # "none" /\ blk.form = "transaction" /\ buf = WireTx(6)) =>
          blk.status = "ok"

\* a Sapling v4 transaction with both shielded vectors empty was decoded
C22_Witness ==
    /\ JustDecoded /\ blk.form = "transaction"
    /\ SaplingShaped(DecodedTransaction1.rawBytes)
    /\ SpendCount(DecodedTransaction1.rawBytes, DecodedTransaction1) = 0
    /\ OutputCount(DecodedTransaction1.rawBytes, DecodedTransaction1) = 0
    /\ ~IsSome(DecodedTransaction1.bindingSig)

\* the low 31 bits of the first four bytes are 4 or more
VersionAtLeast4(raw) ==
    raw[1] >= 4 \/ raw[2] > 0 \/ raw[3] > 0 \/ raw[4] % 128 > 0

\* the bytes of a transaction say overwintered and version >= 4
GrothShaped(raw) == raw[4] >= 128 /\ VersionAtLeast4(raw)

\* the length of a JoinSplit description: two amounts, anchor, two nullifiers,
\* two commitments, key, seed, two macs, the proof, two ciphertexts
ProofOffset == 8 + 8 + 32 + 64 + 64 + 32 + 32 + 64
ProofLen(raw) == IF GrothShaped(raw) THEN GROTH_PROOF_BYTES ELSE PHGR_PROOF_BYTES
JoinSplitBytes(raw) == ProofOffset + ProofLen(raw) + 2 * JS_CIPHERTEXT_BYTES

\* where the proof of the k-th JoinSplit of transaction tx starts in its bytes raw
ProofStart(raw, tx, k) ==
    FixedPartLen(raw, tx) + ExpiryLen(raw) + ShieldedLen(raw, tx) + 1
    + (k - 1) * JoinSplitBytes(raw) + ProofOffset

\* the input is one of the blocks (block version 4), not a bare transaction
InputIsBlock == SubSeq(buf, 1, 4) = <<4, 0, 0, 0>>

C24_ProofBranchByLength ==
    (res.op = "tx.encode" /\ res.on = "tx2" /\ ~res.threw) =>
        \A k \in 1..Len(Get(tx2.val).tx.vjoinsplit) :
            LET js == Get(tx2.val).tx.vjoinsplit[k]
            IN SproutProofBranch(js)
                 = (IF Len(js.proof.bytes) = GROTH_PROOF_BYTES
                    THEN "GrothProof" ELSE "PHGRProof")

\* the flag and the version the header was written for
GivenHeader == Get(tx2.val)

\* C25: the four header bytes are the little-endian bytes of the unsigned
\* value (overwintered ? 2^31 : 0) + version: the bytes of the version with
\* bit 7 of the last byte set for the flag, which is what the signed write of
\* the negative value gives; they are the bytes the transaction encoder of the
\* model writes; and the decoder gets the same flag and version back from them
C25_HeaderBytes ==
    (tx2.form = "header" /\ Len(buf) = 4) =>
        /\ buf = <<GivenHeader.version % 256,
                   (GivenHeader.version \div 256) % 256,
                   (GivenHeader.version \div 65536) % 256,
                   (GivenHeader.version \div 16777216)
                     + (IF GivenHeader.overwintered THEN 128 ELSE 0)>>
        /\ buf = SubSeq(CustomEncodeVersionAndGroup(
                            [overwintered |-> GivenHeader.overwintered,
                             version |-> WriteUInt32LE(GivenHeader.version),
                             versiongroupid |-> SAPLING_VERSION_GROUP_ID]), 1, 4)
        /\ VersionAndGroupState(0, buf, Zeros(4)).overwintered = GivenHeader.overwintered
        /\ VersionAndGroupState(0, buf, Zeros(4)).version
              = WriteUInt32LE(GivenHeader.version)
        /\ res.op = "header.read" => Get(res.obj) = GivenHeader

\* the header of an overwintered transaction of version 2^31 - 1 was written
\* and read back
C25_Witness ==
    /\ tx2.form = "header" /\ res.op = "header.read"
    /\ GivenHeader.overwintered /\ GivenHeader.version = 2147483647
    /\ buf = <<255, 255, 255, 255>>

\* the value m * 2^d the pair stands for is mantissa * 2^(8 * (exponent - 3)),
\* a power below 1 when the exponent byte is 0, 1 or 2
IsTargetOf(pair, bits) ==
    /\ pair.mantissa = bits[1] + 256 * bits[2] + 65536 * bits[3]
    /\ pair.mantissa = 0 \/ pair.doublings = 8 * (bits[4] - 3)

\* C26: a read of difficulty that computes it returns
\* targetDifficulty(0x1f07ffff) / targetDifficulty(bits) with
\* targetDifficulty(bits) = (bits & 0xFFFFFF) * 2^(8 * ((bits >> 24) - 3)), for
\* the exponent bytes 0, 1 and 2 too; for bits = 0x1f07ffff it is 1
C26_TargetDifficulty ==
    (res.op = "difficulty" /\ res.type = "computed") =>
        /\ IsTargetOf(Get(res.obj).den, Get(res.bytes))
        /\ IsTargetOf(Get(res.obj).num, <<255, 255, 7, 31>>)
        /\ Get(res.bytes) = <<255, 255, 7, 31>> => Get(res.obj).num = Get(res.obj).den

\* C27: every read of difficulty returns the value derived from the bits the
\* block holds at the moment of the read, whatever was read and assigned before
C27_DifficultyOfCurrentBits ==
    res.op = "difficulty" => Get(res.obj) = ComputeDifficulty(Get(res.bytes))

\* an object as a caller reads it: the fields, with difficulty as the getter
\* returns it
Observed(o) ==
    IF o.status = "ok" /\ o.form # "transaction"
    THEN [o EXCEPT !.val = Some([Get(o.val) EXCEPT !.block = AfterDifficultyRead(@)])]
    ELSE o

\* a step of encode(), toPorcelain(mode), isCoinbase() or calculateMerkleRoot():
\* it leaves a result, or the porcelain kept for fromPorcelain
ReadingCall ==
    \/ /\ res'.op \in {"encode", "tx.encode", "toPorcelain", "tx.toPorcelain",
                       "calculateMerkleRoot", "tx.isCoinbase"}
       /\ <<res'.op, res'.on, res'.index>> # <<res.op, res.on, res.index>>
    \/ porcelain.status = "none" /\ porcelain'.status = "ok"
    \/ txp.status = "none" /\ txp'.status = "ok"

\* a step of Block.fromPorcelain or Transaction.fromPorcelain
FromPorcelainCall ==
    \/ blk2.status = "none" /\ blk2'.form = "rebuilt"
    \/ txp.status = "ok" /\ tx2.status = "none" /\ tx2'.status # "none"

\* an encode() call on the object the previous encode() call was made on
EncodeAgain ==
    /\ res.op \in {"encode", "tx.encode"}
    /\ <<res'.op, res'.on, res'.index>> = <<res.op, res.on, res.index>>

\* a second decode of the input
SecondDecode == blk2.status = "none" /\ blk2'.status # "none" /\ blk2'.form # "rebuilt"

HeaderSpan == SubSeq(buf, Get(blk.val).blockStartPos + 1, Get(blk.val).hashEnd)
CountPrefix ==
    SubSeq(buf, Get(blk.val).hashEnd + 1, ReadCompactSize(buf, Get(blk.val).hashEnd).pos)
RawBytesInOrder ==
    [i \in 1..Len(DecodedTransactions) |-> DecodedTransactions[i].rawBytes]

RECURSIVE SumOfLengths(_)
SumOfLengths(parts) ==
    IF Len(parts) = 0 THEN 0 ELSE Len(parts[1]) + SumOfLengths(Tail(parts))

\* C29: the size of a decoded block is the length of the hashed header span
\* plus the length of the transaction count plus the sum of the lengths of the
\* transactions' rawBytes; the three, concatenated, are the input from the
\* block's start over size bytes; a strict decode leaves size = input length
C29_SizeIsSum ==
    (blk.status = "ok" /\ blk.form = "block") =>
        /\ Get(TheBlock("blk").size) =
              Len(HeaderSpan) + Len(CountPrefix) + SumOfLengths(RawBytesInOrder)
        /\ HeaderSpan \o CountPrefix \o Concat(RawBytesInOrder) =
              SubSeq(buf, Get(blk.val).blockStartPos + 1,
                     Get(blk.val).blockStartPos + Get(TheBlock("blk").size))
        /\ strict => Get(TheBlock("blk").size) = Len(buf)

\* a strict decode returned a block of transactions of different lengths
C29_Witness ==
    /\ strict /\ blk.status = "ok" /\ blk.form = "block"
    /\ Len(DecodedTransactions) >= 2
    /\ Len(RawBytesInOrder[1]) # Len(RawBytesInOrder[2])

\* C30: the bytes a transaction rebuilt from a porcelain encodes to decode
\* under strict length usage, to a transaction with the rebuilt one's porcelain
C30_EncodeDecodeRoundTrip ==
    (tx2.status = "ok" /\ blk2.status # "none" /\ blk2.form = "transaction") =>
        /\ blk2.status = "ok"
        /\ TransactionToJSON(Get(blk2.val).tx) = TransactionToJSON(Get(tx2.val).tx)

====
